---- MODULE Spec2Model ----
(***************************************************************************)
(* A model of the CSS property grammar compiler of                         *)
(* Source/WebCore/css/scripts/process-css-properties.py:                   *)
(*   - BNFParser, the push-down state machine that turns the token stream  *)
(*     of one grammar string into a tree of BNF nodes;                     *)
(*   - Term.from_node and the Term fixup passes;                           *)
(*   - Grammar.check_against_values and PropertyConsumer.make.             *)
(***************************************************************************)
EXTENDS Integers, Sequences, FiniteSets, TLC

(***************************************************************************)
(* Bounds of the model.                                                    *)
(***************************************************************************)
\* Number of tokens the lexer hands to BNFParser.parse in one run.
MaxTokens == 7
\* Number of term nodes (groupings, functions, references, keywords, literals)
\* the parser allocates besides the root grouping.
MaxNodes == 2
\* Number of other objects (reference attributes, repetition modifiers,
\* annotations, directives) the parser allocates.
MaxParts == 2
\* Number of characters of the text of a quoted literal.
MaxLiteralLen == 2

(***************************************************************************)
(* Tokens (BNFToken, BNF_ILLEGAL_TOKEN, BNF_EOF_TOKEN).                    *)
(***************************************************************************)
None == "None"

BNF_ILLEGAL_TOKEN == "ILLEGAL"
BNF_EOF_TOKEN == "EOF"

\* The token kinds whose text is fixed by their pattern, with that text.
BNFToken ==
    { <<"LPAREN", "(">>, <<"RPAREN", ")">>, <<"LBRACE", "{">>, <<"RBRACE", "}">>,
      <<"LSQUARE", "[">>, <<"RSQUARE", "]">>, <<"LTLT", "<<">>, <<"GTGT", ">>">>,
      <<"LT", "<">>, <<"GT", ">">>, <<"SQUOTE", "'">>, <<"ATPAREN", "@(">>,
      <<"HASH", "#">>, <<"PLUS", "+">>, <<"STAR", "*">>, <<"NOT", "!">>,
      <<"QMARK", "?">>, <<"OROR", "||">>, <<"OR", "|">>, <<"ANDAND", "&&">>,
      <<"COMMA", ",">>, <<"SLASH", "/">>, <<"EQUAL", "=">> }

\* Texts of the ID, FUNC, INT and FLOAT tokens the model feeds to the parser.
IdValues == {"settings-flag", "-inf", "inf"}
FuncValues == {"f("}
IntValues == {"2", "4"}
FloatValues == {"1.5"}
IllegalValues == {"$"}

BNFTokenInfo(name, value) == [name |-> name, value |-> value]

Tokens ==
    { BNFTokenInfo(t[1], t[2]) : t \in BNFToken }
    \cup { BNFTokenInfo("ID", v) : v \in IdValues }
    \cup { BNFTokenInfo("FUNC", v) : v \in FuncValues }
    \cup { BNFTokenInfo("INT", v) : v \in IntValues }
    \cup { BNFTokenInfo("FLOAT", v) : v \in FloatValues }
    \cup { BNFTokenInfo(BNF_ILLEGAL_TOKEN, v) : v \in IllegalValues }
    \cup { BNFTokenInfo(BNF_EOF_TOKEN, "\\x00") }

NoToken == BNFTokenInfo(None, None)

\* int(token.value) for the text of an INT token.
DigitOf(c) ==
    CASE c = "1" -> 1 [] c = "2" -> 2 [] c = "3" -> 3 [] c = "4" -> 4 [] c = "5" -> 5
      [] c = "6" -> 6 [] c = "7" -> 7 [] c = "8" -> 8 [] c = "9" -> 9 [] OTHER -> 0
RECURSIVE Decimal(_)
Decimal(s) ==
    IF s = "" THEN 0
    ELSE 10 * Decimal(SubSeq(s, 1, Len(s) - 1)) + DigitOf(SubSeq(s, Len(s), Len(s)))
IntOf(s) == IF SubSeq(s, 1, 1) = "-" THEN 0 - Decimal(SubSeq(s, 2, Len(s))) ELSE Decimal(s)

\* token.value[:-1]
FuncName(s) == SubSeq(s, 1, Len(s) - 1)

COMBINATOR_FOR_TOKEN == [OR |-> "MATCH_ONE", OROR |-> "MATCH_ONE_OR_MORE_ANY_ORDER", ANDAND |-> "MATCH_ALL_ANY_ORDER"]
SIMPLE_MULTIPLIERS == {"HASH", "PLUS", "STAR", "NOT", "QMARK"}
SUPPORTED_UNQUOTED_LITERALS == {"COMMA", "SLASH"}

(***************************************************************************)
(* BNFLexer.  `data` is a string and positions count from 0 as in the      *)
(* source: data[i] is SubSeq(data, i + 1, i + 1).                          *)
(***************************************************************************)
\* The members of BNFToken in the order of their definition, which is the
\* order in which BNFLexer tries them.
BNFTokenOrder ==
    << "FLOAT", "INT", "LPAREN", "RPAREN", "LBRACE", "RBRACE", "LSQUARE", "RSQUARE",
       "LTLT", "GTGT", "LT", "GT", "SQUOTE", "ATPAREN", "HASH", "PLUS", "STAR", "NOT",
       "QMARK", "OROR", "OR", "ANDAND", "COMMA", "SLASH", "EQUAL", "FUNC", "ID",
       "WHITESPACE" >>

\* The character classes of the patterns: \d, [_a-zA-Z\-], [_a-zA-Z0-9\-]
\* and (\t|\n|\s|\r).
Digits == {"0", "1", "2", "3", "4", "5", "6", "7", "8", "9"}
Letters ==
    {"a", "b", "c", "d", "e", "f", "g", "h", "i", "j", "k", "l", "m", "n", "o", "p", "q",
     "r", "s", "t", "u", "v", "w", "x", "y", "z", "A", "B", "C", "D", "E", "F", "G", "H",
     "I", "J", "K", "L", "M", "N", "O", "P", "Q", "R", "S", "T", "U", "V", "W", "X", "Y", "Z"}
IdStart == Letters \cup {"_", "-"}
IdChars == IdStart \cup Digits
Whitespace == {" ", "\t", "\n", "\r", "\f"}

\* data[i]
CharAt(d, i) == SubSeq(d, i + 1, i + 1)

\* A run that takes no character.
RunEnd_empty(class, d, i) == i

\* The end of the longest run of characters of `class` that starts at i.
RunEnd(class, d, i) ==
    CHOOSE e \in i..Len(d) :
        /\ \A k \in i..(e - 1) : CharAt(d, k) \in class
        /\ e = Len(d) \/ CharAt(d, e) \notin class

\* No match of a pattern.
NoMatch == 0 - 1

\* token_id.value.match(data, position): match.end(0), or NoMatch.
match(token_id, d, pos) ==
    LET signed == IF pos < Len(d) /\ CharAt(d, pos) = "-" THEN pos + 1 ELSE pos
        int_end == RunEnd(Digits, d, signed)
        frac_end == RunEnd(Digits, d, int_end + 1)
        id_end == RunEnd(IdChars, d, pos)
        space_end == RunEnd(Whitespace, d, pos)
    IN CASE token_id = "FLOAT" ->
                IF /\ int_end > signed
                   /\ int_end < Len(d) /\ CharAt(d, int_end) = "."
                   /\ frac_end > int_end + 1
                THEN frac_end ELSE NoMatch
         [] token_id = "INT" -> IF int_end > signed THEN int_end ELSE NoMatch
         [] token_id = "FUNC" ->
                IF /\ pos < Len(d) /\ CharAt(d, pos) \in IdStart
                   /\ id_end < Len(d) /\ CharAt(d, id_end) = "("
                THEN id_end + 1 ELSE NoMatch
         [] token_id = "ID" ->
                IF pos < Len(d) /\ CharAt(d, pos) \in IdStart THEN id_end ELSE NoMatch
         [] token_id = "WHITESPACE" -> IF space_end > pos THEN space_end ELSE NoMatch
         [] OTHER ->
                LET text == (CHOOSE t \in BNFToken : t[1] = token_id)[2] IN
                IF pos + Len(text) <= Len(d) /\ SubSeq(d, pos + 1, pos + Len(text)) = text
                THEN pos + Len(text) ELSE NoMatch

\* The `for token_id in BNFToken` loop of one iteration of BNFLexer: the
\* first member whose pattern matches at `pos`, None if the loop runs to its
\* else clause.
first_match(d, pos) ==
    LET matching == { k \in DOMAIN BNFTokenOrder : match(BNFTokenOrder[k], d, pos) # NoMatch }
    IN IF matching = {} THEN None
       ELSE BNFTokenOrder[CHOOSE k \in matching : \A j \in matching : k <= j]

(***************************************************************************)
(* Parse-tree objects.  `nodes` is the heap: nodes[i] is the object with   *)
(* identity i, and nodes[1] is BNFParser.root.                             *)
(***************************************************************************)
\* A reference to an object, or to the BNFNodeMultiplier owned by it.
Ref(id, part) == [node |-> id, part |-> part]
NoneRef == Ref(0, None)

\* BNFNodeMultiplier.__init__
BNFNodeMultiplier == [kind |-> None, range |-> 0, annotation |-> 0]

\* BNFNodeMultiplier.Kind
BNFNodeMultiplierKind ==
    { "ZERO_OR_ONE", "SPACE_SEPARATED_ZERO_OR_MORE", "SPACE_SEPARATED_ONE_OR_MORE",
      "SPACE_SEPARATED_EXACT", "SPACE_SEPARATED_AT_LEAST", "SPACE_SEPARATED_BETWEEN",
      "COMMA_SEPARATED_ONE_OR_MORE", "COMMA_SEPARATED_EXACT", "COMMA_SEPARATED_AT_LEAST",
      "COMMA_SEPARATED_BETWEEN" }

\* The fields of every object of the parse tree; a type uses the ones it has.
\*   members: members of a grouping / of a function's parameter_group,
\*            attributes of a reference, directives of an annotation
\*   value:   value list of a string attribute or of a directive
\*   rmin, rmax: min and max of a BNFRepetitionModifier (read only when
\*            `kind` says they were set)
NewNode(type) ==
    [type |-> type, kind |-> None, name |-> None, members |-> <<>>, value |-> <<>>,
     min |-> None, max |-> None, rmin |-> 0, rmax |-> 0,
     is_initial |-> FALSE, is_internal |-> FALSE, is_function_reference |-> FALSE,
     multiplier |-> BNFNodeMultiplier, annotation |-> 0]

\* BNFGroupingNode.__init__
BNFGroupingNode(is_initial) ==
    [NewNode("BNFGroupingNode") EXCEPT !.kind = "MATCH_ALL_ORDERED", !.is_initial = is_initial]
\* BNFFunctionNode.__init__ (kind and members are those of its parameter_group)
BNFFunctionNode(name) ==
    [NewNode("BNFFunctionNode") EXCEPT !.kind = "MATCH_ALL_ORDERED", !.name = name]
\* BNFReferenceNode.__init__
BNFReferenceNode(is_internal) ==
    [NewNode("BNFReferenceNode") EXCEPT !.is_internal = is_internal]
BNFKeywordNode(keyword) == [NewNode("BNFKeywordNode") EXCEPT !.name = keyword]
BNFLiteralNode(value) == [NewNode("BNFLiteralNode") EXCEPT !.name = value]
BNFRepetitionModifier == NewNode("BNFRepetitionModifier")
BNFAnnotation == NewNode("BNFAnnotation")
Directive(name) == [NewNode("Directive") EXCEPT !.name = name]
StringAttribute(name) == [NewNode("StringAttribute") EXCEPT !.name = name]
RangeAttribute == NewNode("RangeAttribute")

\* The subclasses of BNFNode: the objects Term.from_node turns into terms.
TermNodeTypes ==
    { "BNFGroupingNode", "BNFFunctionNode", "BNFReferenceNode", "BNFKeywordNode", "BNFLiteralNode" }

BNFParserState ==
    { "UNKNOWN_GROUPING_INITIAL", "UNKNOWN_GROUPING_SEEN_TERM", "KNOWN_ORDERED_GROUPING",
      "KNOWN_COMBINATOR_GROUPING_TERM_REQUIRED",
      "KNOWN_COMBINATOR_GROUPING_COMBINATOR_OR_CLOSE_REQUIRED",
      "INTERNAL_REFERENCE_INITIAL", "INTERNAL_REFERENCE_SEEN_ID", "REFERENCE_INITIAL",
      "REFERENCE_SEEN_QUOTE_OPEN", "REFERENCE_SEEN_QUOTE_AND_ID",
      "REFERENCE_SEEN_FUNCTION_OPEN", "REFERENCE_SEEN_ID_OR_FUNCTION",
      "REFERENCE_STRING_ATTRIBUTE_INITIAL", "REFERENCE_STRING_ATTRIBUTE_SEEN_EQUAL",
      "REFERENCE_STRING_ATTRIBUTE_SEEN_VALUE", "REFERENCE_RANGE_ATTRIBUTE_INITIAL",
      "REFERENCE_RANGE_ATTRIBUTE_SEEN_MIN", "REFERENCE_RANGE_ATTRIBUTE_SEEN_MIN_AND_COMMA",
      "REFERENCE_RANGE_ATTRIBUTE_SEEN_MAX", "REPETITION_MODIFIER_INITIAL",
      "REPETITION_MODIFIER_SEEN_MIN", "REPETITION_MODIFIER_SEEN_MIN_AND_COMMA",
      "REPETITION_MODIFIER_SEEN_MAX", "QUOTED_LITERAL_INITIAL", "QUOTED_LITERAL_SEEN_ID",
      "ANNOTATION_INITIAL", "ANNOTATION_SEEN_ID", "ANNOTATION_SEEN_EQUAL_OR_COMMA",
      "ANNOTATION_SEEN_VALUE", "DONE" }

BNFParserStateInfo(state, node, node_owner) ==
    [state |-> state, node |-> node, node_owner |-> node_owner]

(***************************************************************************)
(* The parser object.  A record p holds the fields of one BNFParser; the   *)
(* operators below are its methods, each returning the parser after the    *)
(* call.  p.status is "parsing" until an exception leaves parse            *)
(* ("raised", with p.error) or parse returns ("returned").                 *)
(***************************************************************************)
NoError == [kind |-> None, token |-> None, state |-> None, data |-> FALSE]

\* An exception leaving parse: what its message names.
Error(kind, token, state, data) ==
    [kind |-> kind, token |-> token, state |-> state, data |-> data]

raise(p, e) == [p EXCEPT !.status = "raised", !.error = e]

\* BNFParser.unexpected: names the token, the state and self.data.
unexpected(token, state) == Error("Unexpected token", token.name, state.state, TRUE)

\* The exception of calling a method on None.
AttributeError(token, state) == Error("AttributeError", None, None, FALSE)

top(p) == p.state_stack[Len(p.state_stack)]

transition_top(p, to) ==
    [p EXCEPT !.state_stack[Len(p.state_stack)] =
        BNFParserStateInfo(to, top(p).node, top(p).node_owner)]

push(p, new_state, new_node, node_owner) ==
    [p EXCEPT !.state_stack = Append(@, BNFParserStateInfo(new_state, new_node, node_owner))]

pop(p) == [p EXCEPT !.state_stack = SubSeq(@, 1, Len(@) - 1)]

\* Constructing an object: it gets the next identity.
new(p, object) == [p EXCEPT !.nodes = Append(@, object)]
newest(p) == Len(p.nodes)

\* member lists: BNFGroupingNode.add, BNFFunctionNode.add,
\* BNFReferenceNode.add_attribute, BNFAnnotation.add_directive
add(p, owner, member) == [p EXCEPT !.nodes[owner.node].members = Append(@, member)]

set_targets(p, mt, at) ==
    [p EXCEPT !.multiplier_target = mt, !.annotation_target = at]

\* BNFParser.__init__ followed by enter_initial_grouping
BNFParser ==
    [nodes |-> << BNFGroupingNode(TRUE) >>,
     state_stack |-> << BNFParserStateInfo("UNKNOWN_GROUPING_INITIAL", 1, NoneRef) >>,
     multiplier_target |-> NoneRef,
     annotation_target |-> NoneRef,
     status |-> "parsing",
     error |-> NoError]


(***************************************************************************)
(* BNFNodeMultiplier.add and the add_annotation methods.                   *)
(***************************************************************************)
\* BNFNodeMultiplier.Kind(value): the kind whose value is the token text.
KindOfValue ==
    [x \in {"?", "*", "+", "#"} |->
        CASE x = "?" -> "ZERO_OR_ONE"
          [] x = "*" -> "SPACE_SEPARATED_ZERO_OR_MORE"
          [] x = "+" -> "SPACE_SEPARATED_ONE_OR_MORE"
          [] x = "#" -> "COMMA_SEPARATED_ONE_OR_MORE"]

SpaceSeparatedKind == [EXACT |-> "SPACE_SEPARATED_EXACT", AT_LEAST |-> "SPACE_SEPARATED_AT_LEAST", BETWEEN |-> "SPACE_SEPARATED_BETWEEN"]
CommaSeparatedKind == [EXACT |-> "COMMA_SEPARATED_EXACT", AT_LEAST |-> "COMMA_SEPARATED_AT_LEAST", BETWEEN |-> "COMMA_SEPARATED_BETWEEN"]

InvalidToStack == Error("Invalid to stack", None, None, FALSE)

set_multiplier(p, owner, kind, range) ==
    [p EXCEPT !.nodes[owner.node].multiplier.kind = kind,
              !.nodes[owner.node].multiplier.range = range]

\* BNFNodeMultiplier.add taking the `self.kind is None` branch whatever
\* self.kind is.
multiplier_add_overwriting(p, owner, multiplier, is_repetition) ==
    LET self == p.nodes[owner.node].multiplier IN
    IF is_repetition
    THEN IF p.nodes[multiplier].kind \in DOMAIN SpaceSeparatedKind
         THEN set_multiplier(p, owner, SpaceSeparatedKind[p.nodes[multiplier].kind], multiplier)
         ELSE p
    ELSE IF multiplier \in DOMAIN KindOfValue
         THEN set_multiplier(p, owner, KindOfValue[multiplier], self.range)
         ELSE raise(p, Error("ValueError", None, None, FALSE))

\* BNFNodeMultiplier.add of the multiplier of object `owner`.  `multiplier`
\* is the text of a simple multiplier token, or the identity of a
\* BNFRepetitionModifier when is_repetition.
multiplier_add(p, owner, multiplier, is_repetition) ==
    LET self == p.nodes[owner.node].multiplier IN
    IF self.annotation # 0 THEN raise(p, InvalidToStack)
    ELSE IF self.kind = None THEN
        IF is_repetition
        THEN IF p.nodes[multiplier].kind \in DOMAIN SpaceSeparatedKind
             THEN set_multiplier(p, owner, SpaceSeparatedKind[p.nodes[multiplier].kind], multiplier)
             ELSE p
        ELSE IF multiplier \in DOMAIN KindOfValue
             THEN set_multiplier(p, owner, KindOfValue[multiplier], self.range)
             ELSE raise(p, Error("ValueError", None, None, FALSE))
    ELSE IF self.kind = "COMMA_SEPARATED_ONE_OR_MORE" THEN
        IF is_repetition
        THEN IF p.nodes[multiplier].kind \in DOMAIN CommaSeparatedKind
             THEN set_multiplier(p, owner, CommaSeparatedKind[p.nodes[multiplier].kind], multiplier)
             ELSE p
        ELSE raise(p, InvalidToStack)
    ELSE raise(p, InvalidToStack)

\* The SUPPORTED_DIRECTIVES tables.  Star stands for '*': every kind.
Star == {"*"}
MultiplierDirectives ==
    [ x \in {"no-single-item-opt", "type", "default", "settings-flag"} |->
        CASE x = "no-single-item-opt" ->
                { "SPACE_SEPARATED_ZERO_OR_MORE", "SPACE_SEPARATED_ONE_OR_MORE",
                  "SPACE_SEPARATED_AT_LEAST", "SPACE_SEPARATED_BETWEEN",
                  "COMMA_SEPARATED_ONE_OR_MORE", "COMMA_SEPARATED_AT_LEAST",
                  "COMMA_SEPARATED_BETWEEN" }
          [] x = "type" ->
                { "SPACE_SEPARATED_ZERO_OR_MORE", "SPACE_SEPARATED_ONE_OR_MORE",
                  "SPACE_SEPARATED_BETWEEN", "SPACE_SEPARATED_EXACT",
                  "COMMA_SEPARATED_ONE_OR_MORE", "COMMA_SEPARATED_BETWEEN",
                  "COMMA_SEPARATED_EXACT" }
          [] x = "default" -> { "SPACE_SEPARATED_BETWEEN", "COMMA_SEPARATED_BETWEEN" }
          [] x = "settings-flag" -> Star ]
GroupingDirectives ==
    [ x \in {"no-single-item-opt", "preserve-order", "type", "settings-flag"} |->
        CASE x = "no-single-item-opt" ->
                { "MATCH_ALL_ORDERED", "MATCH_ALL_ANY_ORDER", "MATCH_ONE_OR_MORE_ANY_ORDER" }
          [] x = "preserve-order" -> { "MATCH_ALL_ANY_ORDER", "MATCH_ONE_OR_MORE_ANY_ORDER" }
          [] x = "type" ->
                { "MATCH_ALL_ORDERED", "MATCH_ALL_ANY_ORDER", "MATCH_ONE_OR_MORE_ANY_ORDER" }
          [] x = "settings-flag" -> Star ]
FunctionDirectives == [ x \in {"settings-flag"} |-> Star ]
ReferenceDirectives == [ x \in {"settings-flag"} |-> Star ]
KeywordDirectives == [ x \in {"aliased-to", "settings-flag"} |-> Star ]
LiteralDirectives == [ x \in {} |-> Star ]

\* The loop without its two tests.
check_directives_accepting(p, annotation, table, kind) == NoError

\* The loop over annotation.directives of an add_annotation method: the
\* exception of the first directive that is not supported, or NoError.
check_directives(p, annotation, table, kind) ==
    LET names == [i \in DOMAIN p.nodes[annotation].members |-> p.nodes[p.nodes[annotation].members[i]].name]
        bad(i) == \/ names[i] \notin DOMAIN table
                  \/ (table[names[i]] # Star /\ kind \notin table[names[i]])
        failing == { i \in DOMAIN names : bad(i) }
    IN IF failing = {} THEN NoError
       ELSE LET i == CHOOSE j \in failing : \A k \in failing : j <= k IN
            IF names[i] \notin DOMAIN table
            THEN Error("Unknown annotation directive", None, None, FALSE)
            ELSE Error("Unsupported annotation directive", None, None, FALSE)

AlreadyAnnotated == Error("Invalid to add an annotation", None, None, FALSE)

\* X.add_annotation(annotation) for the object, or the multiplier, `owner`
\* refers to.
add_annotation(p, owner, annotation) ==
    LET self == p.nodes[owner.node] IN
    IF owner.part = "multiplier" THEN
        IF self.multiplier.annotation # 0 THEN raise(p, AlreadyAnnotated)
        ELSE LET e == check_directives(p, annotation, MultiplierDirectives, self.multiplier.kind) IN
             IF e # NoError THEN raise(p, e)
             ELSE [p EXCEPT !.nodes[owner.node].multiplier.annotation = annotation]
    ELSE
        IF self.annotation # 0 THEN raise(p, AlreadyAnnotated)
        ELSE LET table == CASE self.type = "BNFGroupingNode" -> GroupingDirectives
                            [] self.type = "BNFFunctionNode" -> FunctionDirectives
                            [] self.type = "BNFReferenceNode" -> ReferenceDirectives
                            [] self.type = "BNFKeywordNode" -> KeywordDirectives
                            [] OTHER -> LiteralDirectives
                 e == check_directives(p, annotation, table, self.kind)
             IN IF e # NoError THEN raise(p, e)
                ELSE [p EXCEPT !.nodes[owner.node].annotation = annotation]

(***************************************************************************)
(* BNFParser: common actions.  `state` is the frame the handler was        *)
(* called with, i.e. the top of the stack when the token was read.         *)
(***************************************************************************)
\* exit_initial_grouping without its isinstance / is_initial test.
exit_initial_grouping_unchecked(p, token, state) == transition_top(p, "DONE")

exit_initial_grouping(p, token, state) ==
    IF p.nodes[state.node].type = "BNFGroupingNode" /\ p.nodes[state.node].is_initial
    THEN transition_top(p, "DONE")
    ELSE raise(p, unexpected(token, state))

\* push(state, object, self.top.node) followed by clearing both targets:
\* enter_new_grouping, enter_new_function, enter_new_internal_reference,
\* enter_new_reference, enter_new_string_attribute,
\* enter_new_range_attribute, enter_new_quoted_literal
enter_new(p, new_state, object) ==
    LET q == new(p, object) IN
    set_targets(push(q, new_state, newest(q), Ref(top(p).node, "node")), NoneRef, NoneRef)

\* enter_new_grouping, were the two targets left as they are.
enter_new_grouping_keeping_targets(p, token, state) ==
    LET q == new(p, BNFGroupingNode(FALSE)) IN
    push(q, "UNKNOWN_GROUPING_INITIAL", newest(q), Ref(top(p).node, "node"))

enter_new_grouping(p, token, state) ==
    enter_new(p, "UNKNOWN_GROUPING_INITIAL", BNFGroupingNode(FALSE))
enter_new_function(p, token, state) ==
    enter_new(p, "UNKNOWN_GROUPING_INITIAL", BNFFunctionNode(FuncName(token.value)))
enter_new_internal_reference(p, token, state) ==
    enter_new(p, "INTERNAL_REFERENCE_INITIAL", BNFReferenceNode(TRUE))
enter_new_reference(p, token, state) ==
    enter_new(p, "REFERENCE_INITIAL", BNFReferenceNode(FALSE))
enter_new_string_attribute(p, token, state) ==
    enter_new(p, "REFERENCE_STRING_ATTRIBUTE_INITIAL", StringAttribute(token.value))
enter_new_range_attribute(p, token, state) ==
    enter_new(p, "REFERENCE_RANGE_ATTRIBUTE_INITIAL", RangeAttribute)
enter_new_quoted_literal(p, token, state) ==
    enter_new(p, "QUOTED_LITERAL_INITIAL", BNFLiteralNode(None))

\* pop, state.node_owner.add(state.node), both targets become state.node:
\* the body of exit_grouping, exit_function, exit_internal_reference,
\* exit_reference and exit_quoted_literal once the type test has passed.
exit_term(p, state) ==
    set_targets(add(pop(p), state.node_owner, state.node),
                Ref(state.node, "node"), Ref(state.node, "node"))

exit_grouping(p, token, state) ==
    IF p.nodes[state.node].type = "BNFGroupingNode" /\ ~p.nodes[state.node].is_initial
    THEN exit_term(p, state)
    ELSE raise(p, unexpected(token, state))

exit_function(p, token, state) ==
    IF p.nodes[state.node].type = "BNFFunctionNode"
    THEN exit_term(p, state)
    ELSE raise(p, unexpected(token, state))

exit_internal_reference(p, token, state) ==
    IF p.nodes[state.node].type = "BNFReferenceNode" /\ p.nodes[state.node].is_internal
    THEN exit_term(p, state)
    ELSE raise(p, unexpected(token, state))

exit_reference(p, token, state) ==
    IF p.nodes[state.node].type = "BNFReferenceNode" /\ ~p.nodes[state.node].is_internal
    THEN exit_term(p, state)
    ELSE raise(p, unexpected(token, state))

exit_quoted_literal(p, token, state) ==
    IF p.nodes[state.node].type = "BNFLiteralNode"
    THEN exit_term(p, state)
    ELSE raise(p, unexpected(token, state))

enter_new_repetition_modifier(p, token, state) ==
    LET q == new(p, BNFRepetitionModifier) IN
    [push(q, "REPETITION_MODIFIER_INITIAL", newest(q), p.multiplier_target)
        EXCEPT !.annotation_target = NoneRef]

exit_repetition_modifier(p, token, state) ==
    IF p.nodes[state.node].type = "BNFRepetitionModifier"
    THEN LET q == pop(p) IN
         IF state.node_owner = NoneRef THEN raise(q, AttributeError(token, state))
         ELSE LET r == multiplier_add(q, state.node_owner, state.node, TRUE) IN
              IF r.status = "raised" THEN r
              ELSE set_targets(r, NoneRef, Ref(state.node_owner.node, "multiplier"))
    ELSE raise(p, unexpected(token, state))

\* exit_string_attribute and exit_range_attribute
exit_attribute(p, state) ==
    set_targets(add(pop(p), state.node_owner, state.node), NoneRef, NoneRef)

exit_string_attribute(p, token, state) ==
    IF p.nodes[state.node].type = "StringAttribute"
    THEN exit_attribute(p, state)
    ELSE raise(p, unexpected(token, state))

exit_range_attribute(p, token, state) ==
    IF p.nodes[state.node].type = "RangeAttribute"
    THEN exit_attribute(p, state)
    ELSE raise(p, unexpected(token, state))

enter_new_annotation(p, token, state) ==
    LET q == new(p, BNFAnnotation) IN
    [push(q, "ANNOTATION_INITIAL", newest(q), p.annotation_target)
        EXCEPT !.annotation_target = NoneRef]

exit_annotation(p, token, state) ==
    IF p.nodes[state.node].type = "BNFAnnotation"
    THEN LET q == pop(p) IN
         IF state.node_owner = NoneRef THEN raise(q, AttributeError(token, state))
         ELSE LET r == add_annotation(q, state.node_owner, state.node) IN
              IF r.status = "raised" THEN r
              ELSE [r EXCEPT !.annotation_target = NoneRef]
    ELSE raise(p, unexpected(token, state))

enter_new_directive(p, token, state) ==
    LET q == new(p, Directive(token.value)) IN
    push(q, "ANNOTATION_SEEN_ID", newest(q), Ref(top(p).node, "node"))

exit_directive(p, token, state) ==
    IF p.nodes[state.node].type = "Directive"
    THEN add(pop(p), state.node_owner, state.node)
    ELSE raise(p, unexpected(token, state))

process_keyword(p, token, state) ==
    LET q == add(new(p, BNFKeywordNode(token.value)), Ref(state.node, "node"), Len(p.nodes) + 1) IN
    set_targets(q, Ref(newest(q), "node"), Ref(newest(q), "node"))

process_unquoted_literal(p, token, state) ==
    LET q == add(new(p, BNFLiteralNode(token.value)), Ref(state.node, "node"), Len(p.nodes) + 1) IN
    set_targets(q, Ref(newest(q), "node"), Ref(newest(q), "node"))

process_simple_multiplier(p, token, state) ==
    IF p.multiplier_target = NoneRef THEN raise(p, AttributeError(token, state))
    ELSE LET q == multiplier_add(p, p.multiplier_target, token.value, FALSE) IN
         IF q.status = "raised" THEN q
         ELSE [q EXCEPT !.annotation_target = Ref(p.multiplier_target.node, "multiplier")]

\* process_combinator without the comparison with the grouping's known kind.
process_combinator_unchecked(p, token, state, known_kind) ==
    set_targets([p EXCEPT !.nodes[state.node].kind = COMBINATOR_FOR_TOKEN[token.name]],
                NoneRef, NoneRef)

process_combinator(p, token, state, known_kind) ==
    IF known_kind # None /\ known_kind # COMBINATOR_FOR_TOKEN[token.name]
    THEN raise(p, Error("Did you mean", token.name, None, FALSE))
    ELSE set_targets([p EXCEPT !.nodes[state.node].kind = COMBINATOR_FOR_TOKEN[token.name]],
                     NoneRef, NoneRef)


(***************************************************************************)
(* BNFParser: parsing thunks, one per BNFParserState.                      *)
(***************************************************************************)
\* The tokens that start a term in a grouping, after the top frame went to
\* state `to` (the handler's own state when the handler does not transition).
start_term(p, token, state, to) ==
    LET q == transition_top(p, to) IN
    CASE token.name = "LSQUARE" -> enter_new_grouping(q, token, state)
      [] token.name = "LTLT" -> enter_new_internal_reference(q, token, state)
      [] token.name = "LT" -> enter_new_reference(q, token, state)
      [] token.name = "FUNC" -> enter_new_function(q, token, state)
      [] token.name = "ID" -> process_keyword(q, token, state)
      [] token.name = "SQUOTE" -> enter_new_quoted_literal(q, token, state)
      [] token.name \in SUPPORTED_UNQUOTED_LITERALS -> process_unquoted_literal(q, token, state)

TermStart == {"LSQUARE", "LTLT", "LT", "FUNC", "ID", "SQUOTE"} \cup SUPPORTED_UNQUOTED_LITERALS

parse_UNKNOWN_GROUPING_INITIAL(p, token, state) ==
    IF token.name \in TermStart
    THEN start_term(p, token, state, "UNKNOWN_GROUPING_SEEN_TERM")
    ELSE IF token.name = "RPAREN"
    THEN exit_function(transition_top(p, "UNKNOWN_GROUPING_SEEN_TERM"), token, state)
    ELSE raise(p, unexpected(token, state))

parse_UNKNOWN_GROUPING_SEEN_TERM(p, token, state) ==
    IF token.name = "RSQUARE" THEN exit_grouping(p, token, state)
    ELSE IF token.name = BNF_EOF_TOKEN THEN exit_initial_grouping(p, token, state)
    ELSE IF token.name = "RPAREN" THEN exit_function(p, token, state)
    ELSE IF token.name \in TermStart
    THEN start_term(p, token, state, "KNOWN_ORDERED_GROUPING")
    ELSE IF token.name \in DOMAIN COMBINATOR_FOR_TOKEN
    THEN process_combinator(transition_top(p, "KNOWN_COMBINATOR_GROUPING_TERM_REQUIRED"),
                            token, state, None)
    ELSE IF token.name \in SIMPLE_MULTIPLIERS THEN process_simple_multiplier(p, token, state)
    ELSE IF token.name = "ATPAREN" THEN enter_new_annotation(p, token, state)
    ELSE IF token.name = "LBRACE" THEN enter_new_repetition_modifier(p, token, state)
    ELSE raise(p, unexpected(token, state))

\* The handler, were a combinator taken after juxtaposed terms.
parse_KNOWN_ORDERED_GROUPING_mixing(p, token, state) ==
    IF token.name = "RSQUARE" THEN exit_grouping(p, token, state)
    ELSE IF token.name = BNF_EOF_TOKEN THEN exit_initial_grouping(p, token, state)
    ELSE IF token.name = "RPAREN" THEN exit_function(p, token, state)
    ELSE IF token.name \in TermStart
    THEN start_term(p, token, state, "KNOWN_ORDERED_GROUPING")
    ELSE IF token.name \in DOMAIN COMBINATOR_FOR_TOKEN
    THEN process_combinator(transition_top(p, "KNOWN_COMBINATOR_GROUPING_TERM_REQUIRED"),
                            token, state, None)
    ELSE IF token.name = "LBRACE" THEN enter_new_repetition_modifier(p, token, state)
    ELSE IF token.name \in SIMPLE_MULTIPLIERS THEN process_simple_multiplier(p, token, state)
    ELSE IF token.name = "ATPAREN" THEN enter_new_annotation(p, token, state)
    ELSE raise(p, unexpected(token, state))

parse_KNOWN_ORDERED_GROUPING(p, token, state) ==
    IF token.name = "RSQUARE" THEN exit_grouping(p, token, state)
    ELSE IF token.name = BNF_EOF_TOKEN THEN exit_initial_grouping(p, token, state)
    ELSE IF token.name = "RPAREN" THEN exit_function(p, token, state)
    ELSE IF token.name \in TermStart
    THEN start_term(p, token, state, "KNOWN_ORDERED_GROUPING")
    ELSE IF token.name = "LBRACE" THEN enter_new_repetition_modifier(p, token, state)
    ELSE IF token.name \in SIMPLE_MULTIPLIERS THEN process_simple_multiplier(p, token, state)
    ELSE IF token.name = "ATPAREN" THEN enter_new_annotation(p, token, state)
    ELSE raise(p, unexpected(token, state))

\* The handler, were a grouping allowed to close right after a combinator.
parse_KNOWN_COMBINATOR_GROUPING_TERM_REQUIRED_closing(p, token, state) ==
    IF token.name \in {"LSQUARE", "LTLT", "LT", "FUNC", "ID"}
    THEN start_term(p, token, state, "KNOWN_COMBINATOR_GROUPING_COMBINATOR_OR_CLOSE_REQUIRED")
    ELSE IF token.name = "RSQUARE" THEN exit_grouping(p, token, state)
    ELSE IF token.name = BNF_EOF_TOKEN THEN exit_initial_grouping(p, token, state)
    ELSE IF token.name = "RPAREN" THEN exit_function(p, token, state)
    ELSE raise(p, Error("NameError", None, None, FALSE))

\* The last test of the handler reads the name EOF, which the script never
\* defines: every token that reaches it and is not ']' raises NameError.
parse_KNOWN_COMBINATOR_GROUPING_TERM_REQUIRED(p, token, state) ==
    IF token.name \in {"LSQUARE", "LTLT", "LT", "FUNC", "ID"}
    THEN start_term(p, token, state, "KNOWN_COMBINATOR_GROUPING_COMBINATOR_OR_CLOSE_REQUIRED")
    ELSE IF token.name = "RSQUARE"
    THEN raise(p, Error("Groupings can't end in a combinator", token.name, None, FALSE))
    ELSE raise(p, Error("NameError", None, None, FALSE))

parse_KNOWN_COMBINATOR_GROUPING_COMBINATOR_OR_CLOSE_REQUIRED(p, token, state) ==
    IF token.name = "RSQUARE" THEN exit_grouping(p, token, state)
    ELSE IF token.name = BNF_EOF_TOKEN THEN exit_initial_grouping(p, token, state)
    ELSE IF token.name = "RPAREN" THEN exit_function(p, token, state)
    ELSE IF token.name \in DOMAIN COMBINATOR_FOR_TOKEN
    THEN process_combinator(transition_top(p, "KNOWN_COMBINATOR_GROUPING_TERM_REQUIRED"),
                            token, state, p.nodes[state.node].kind)
    ELSE IF token.name \in SIMPLE_MULTIPLIERS THEN process_simple_multiplier(p, token, state)
    ELSE IF token.name = "ATPAREN" THEN enter_new_annotation(p, token, state)
    ELSE IF token.name = "LBRACE" THEN enter_new_repetition_modifier(p, token, state)
    ELSE raise(p, unexpected(token, state))

set_name(p, state, name) == [p EXCEPT !.nodes[state.node].name = name]

parse_REFERENCE_INITIAL(p, token, state) ==
    IF token.name = "FUNC"
    THEN [transition_top(p, "REFERENCE_SEEN_FUNCTION_OPEN")
            EXCEPT !.nodes[state.node].is_function_reference = TRUE,
                   !.nodes[state.node].name = FuncName(token.value)]
    ELSE IF token.name = "ID"
    THEN set_name(transition_top(p, "REFERENCE_SEEN_ID_OR_FUNCTION"), state, token.value)
    ELSE IF token.name = "SQUOTE" THEN transition_top(p, "REFERENCE_SEEN_QUOTE_OPEN")
    ELSE raise(p, unexpected(token, state))

parse_REFERENCE_SEEN_QUOTE_OPEN(p, token, state) ==
    IF token.name = "ID"
    THEN set_name(transition_top(p, "REFERENCE_SEEN_QUOTE_AND_ID"), state, "'" \o token.value \o "'")
    ELSE raise(p, unexpected(token, state))

parse_REFERENCE_SEEN_QUOTE_AND_ID(p, token, state) ==
    IF token.name = "SQUOTE" THEN transition_top(p, "REFERENCE_SEEN_ID_OR_FUNCTION")
    ELSE raise(p, unexpected(token, state))

parse_REFERENCE_SEEN_FUNCTION_OPEN(p, token, state) ==
    IF token.name = "RPAREN" THEN transition_top(p, "REFERENCE_SEEN_ID_OR_FUNCTION")
    ELSE raise(p, unexpected(token, state))

parse_REFERENCE_SEEN_ID_OR_FUNCTION(p, token, state) ==
    IF token.name = "ID" THEN enter_new_string_attribute(p, token, state)
    ELSE IF token.name = "LSQUARE" THEN enter_new_range_attribute(p, token, state)
    ELSE IF token.name = "GT" THEN exit_reference(p, token, state)
    ELSE raise(p, unexpected(token, state))

parse_INTERNAL_REFERENCE_INITIAL(p, token, state) ==
    IF token.name = "ID"
    THEN set_name(transition_top(p, "INTERNAL_REFERENCE_SEEN_ID"), state, token.value)
    ELSE raise(p, unexpected(token, state))

parse_INTERNAL_REFERENCE_SEEN_ID(p, token, state) ==
    IF token.name = "ID" THEN enter_new_string_attribute(p, token, state)
    ELSE IF token.name = "LSQUARE" THEN enter_new_range_attribute(p, token, state)
    ELSE IF token.name = "GTGT" THEN exit_internal_reference(p, token, state)
    ELSE raise(p, unexpected(token, state))

\* The tail shared by the two string-attribute handlers: the attribute is
\* closed first, and the token is then handled with the reference's frame
\* as `state`.
after_string_attribute(p, token, state) ==
    LET q == exit_string_attribute(p, token, state) IN
    IF q.status = "raised" THEN q
    ELSE IF token.name = "ID" THEN enter_new_string_attribute(q, token, top(q))
    ELSE IF token.name = "LSQUARE" THEN enter_new_range_attribute(q, token, top(q))
    ELSE IF token.name = "GT" THEN exit_reference(q, token, top(q))
    ELSE IF token.name = "GTGT" THEN exit_internal_reference(q, token, top(q))
    ELSE raise(q, unexpected(token, top(q)))

parse_REFERENCE_STRING_ATTRIBUTE_INITIAL(p, token, state) ==
    IF token.name = "EQUAL" THEN transition_top(p, "REFERENCE_STRING_ATTRIBUTE_SEEN_EQUAL")
    ELSE after_string_attribute(p, token, state)

parse_REFERENCE_STRING_ATTRIBUTE_SEEN_EQUAL(p, token, state) ==
    IF token.name = "ID"
    THEN [transition_top(p, "REFERENCE_STRING_ATTRIBUTE_SEEN_VALUE")
            EXCEPT !.nodes[state.node].value = Append(@, token.value)]
    ELSE raise(p, unexpected(token, state))

parse_REFERENCE_STRING_ATTRIBUTE_SEEN_VALUE(p, token, state) ==
    IF token.name = "COMMA" THEN transition_top(p, "REFERENCE_STRING_ATTRIBUTE_SEEN_EQUAL")
    ELSE after_string_attribute(p, token, state)

parse_REFERENCE_RANGE_ATTRIBUTE_INITIAL(p, token, state) ==
    IF token.name = "INT" \/ token.name = "FLOAT" \/ (token.name = "ID" /\ token.value = "-inf")
    THEN [transition_top(p, "REFERENCE_RANGE_ATTRIBUTE_SEEN_MIN")
            EXCEPT !.nodes[state.node].min = token.value]
    ELSE raise(p, unexpected(token, state))

parse_REFERENCE_RANGE_ATTRIBUTE_SEEN_MIN(p, token, state) ==
    IF token.name = "COMMA" THEN transition_top(p, "REFERENCE_RANGE_ATTRIBUTE_SEEN_MIN_AND_COMMA")
    ELSE raise(p, unexpected(token, state))

parse_REFERENCE_RANGE_ATTRIBUTE_SEEN_MIN_AND_COMMA(p, token, state) ==
    IF token.name = "INT" \/ token.name = "FLOAT" \/ (token.name = "ID" /\ token.value = "inf")
    THEN [transition_top(p, "REFERENCE_RANGE_ATTRIBUTE_SEEN_MAX")
            EXCEPT !.nodes[state.node].max = token.value]
    ELSE raise(p, unexpected(token, state))

parse_REFERENCE_RANGE_ATTRIBUTE_SEEN_MAX(p, token, state) ==
    IF token.name = "RSQUARE" THEN exit_range_attribute(p, token, state)
    ELSE raise(p, unexpected(token, state))

parse_REPETITION_MODIFIER_INITIAL(p, token, state) ==
    IF token.name = "INT"
    THEN [transition_top(p, "REPETITION_MODIFIER_SEEN_MIN")
            EXCEPT !.nodes[state.node].kind = "EXACT",
                   !.nodes[state.node].rmin = IntOf(token.value)]
    ELSE raise(p, unexpected(token, state))

parse_REPETITION_MODIFIER_SEEN_MIN(p, token, state) ==
    IF token.name = "COMMA"
    THEN [transition_top(p, "REPETITION_MODIFIER_SEEN_MIN_AND_COMMA")
            EXCEPT !.nodes[state.node].kind = "AT_LEAST"]
    ELSE IF token.name = "RBRACE" THEN exit_repetition_modifier(p, token, state)
    ELSE raise(p, unexpected(token, state))

parse_REPETITION_MODIFIER_SEEN_MIN_AND_COMMA(p, token, state) ==
    IF token.name = "INT"
    THEN [transition_top(p, "REPETITION_MODIFIER_SEEN_MAX")
            EXCEPT !.nodes[state.node].kind = "BETWEEN",
                   !.nodes[state.node].rmax = IntOf(token.value)]
    ELSE IF token.name = "RBRACE" THEN exit_repetition_modifier(p, token, state)
    ELSE raise(p, unexpected(token, state))

parse_REPETITION_MODIFIER_SEEN_MAX(p, token, state) ==
    IF token.name = "RBRACE" THEN exit_repetition_modifier(p, token, state)
    ELSE raise(p, unexpected(token, state))

\* Takes the value regardless of the token name.
parse_QUOTED_LITERAL_INITIAL(p, token, state) ==
    set_name(transition_top(p, "QUOTED_LITERAL_SEEN_ID"), state, token.value)

\* Appends the value regardless of the token name.
parse_QUOTED_LITERAL_SEEN_ID(p, token, state) ==
    IF token.name = "SQUOTE" THEN exit_quoted_literal(p, token, state)
    ELSE set_name(p, state, p.nodes[state.node].name \o token.value)

parse_ANNOTATION_INITIAL(p, token, state) ==
    IF token.name = "ID" THEN enter_new_directive(p, token, state)
    ELSE raise(p, unexpected(token, state))

\* The tail shared by ANNOTATION_SEEN_ID and ANNOTATION_SEEN_VALUE: the
\* directive is closed first, and the token is then handled with the
\* annotation's frame as `state`.
after_directive(p, token, state) ==
    LET q == exit_directive(p, token, state) IN
    IF q.status = "raised" THEN q
    ELSE IF token.name = "ID" THEN enter_new_directive(q, token, top(q))
    ELSE IF token.name = "RPAREN" THEN exit_annotation(q, token, top(q))
    ELSE raise(q, unexpected(token, top(q)))

parse_ANNOTATION_SEEN_ID(p, token, state) ==
    IF token.name = "EQUAL" THEN transition_top(p, "ANNOTATION_SEEN_EQUAL_OR_COMMA")
    ELSE after_directive(p, token, state)

parse_ANNOTATION_SEEN_EQUAL_OR_COMMA(p, token, state) ==
    IF token.name = "ID"
    THEN transition_top([p EXCEPT !.nodes[state.node].value = Append(@, token.value)],
                        "ANNOTATION_SEEN_VALUE")
    ELSE raise(p, unexpected(token, state))

parse_ANNOTATION_SEEN_VALUE(p, token, state) ==
    IF token.name = "COMMA" THEN transition_top(p, "ANNOTATION_SEEN_EQUAL_OR_COMMA")
    ELSE after_directive(p, token, state)


\* The body of the loop of parse for one token: an ILLEGAL token raises,
\* another one goes to the thunk of the state of the top frame.
parse_token(p, token) ==
    LET state == top(p) IN
    IF token.name = BNF_ILLEGAL_TOKEN
    THEN raise(p, Error("Illegal token", token.name, None, FALSE))
    ELSE CASE state.state = "UNKNOWN_GROUPING_INITIAL" -> parse_UNKNOWN_GROUPING_INITIAL(p, token, state)
      [] state.state = "UNKNOWN_GROUPING_SEEN_TERM" -> parse_UNKNOWN_GROUPING_SEEN_TERM(p, token, state)
      [] state.state = "KNOWN_ORDERED_GROUPING" -> parse_KNOWN_ORDERED_GROUPING(p, token, state)
      [] state.state = "KNOWN_COMBINATOR_GROUPING_TERM_REQUIRED" ->
            parse_KNOWN_COMBINATOR_GROUPING_TERM_REQUIRED(p, token, state)
      [] state.state = "KNOWN_COMBINATOR_GROUPING_COMBINATOR_OR_CLOSE_REQUIRED" ->
            parse_KNOWN_COMBINATOR_GROUPING_COMBINATOR_OR_CLOSE_REQUIRED(p, token, state)
      [] state.state = "INTERNAL_REFERENCE_INITIAL" -> parse_INTERNAL_REFERENCE_INITIAL(p, token, state)
      [] state.state = "INTERNAL_REFERENCE_SEEN_ID" -> parse_INTERNAL_REFERENCE_SEEN_ID(p, token, state)
      [] state.state = "REFERENCE_INITIAL" -> parse_REFERENCE_INITIAL(p, token, state)
      [] state.state = "REFERENCE_SEEN_QUOTE_OPEN" -> parse_REFERENCE_SEEN_QUOTE_OPEN(p, token, state)
      [] state.state = "REFERENCE_SEEN_QUOTE_AND_ID" -> parse_REFERENCE_SEEN_QUOTE_AND_ID(p, token, state)
      [] state.state = "REFERENCE_SEEN_FUNCTION_OPEN" -> parse_REFERENCE_SEEN_FUNCTION_OPEN(p, token, state)
      [] state.state = "REFERENCE_SEEN_ID_OR_FUNCTION" -> parse_REFERENCE_SEEN_ID_OR_FUNCTION(p, token, state)
      [] state.state = "REFERENCE_STRING_ATTRIBUTE_INITIAL" ->
            parse_REFERENCE_STRING_ATTRIBUTE_INITIAL(p, token, state)
      [] state.state = "REFERENCE_STRING_ATTRIBUTE_SEEN_EQUAL" ->
            parse_REFERENCE_STRING_ATTRIBUTE_SEEN_EQUAL(p, token, state)
      [] state.state = "REFERENCE_STRING_ATTRIBUTE_SEEN_VALUE" ->
            parse_REFERENCE_STRING_ATTRIBUTE_SEEN_VALUE(p, token, state)
      [] state.state = "REFERENCE_RANGE_ATTRIBUTE_INITIAL" ->
            parse_REFERENCE_RANGE_ATTRIBUTE_INITIAL(p, token, state)
      [] state.state = "REFERENCE_RANGE_ATTRIBUTE_SEEN_MIN" ->
            parse_REFERENCE_RANGE_ATTRIBUTE_SEEN_MIN(p, token, state)
      [] state.state = "REFERENCE_RANGE_ATTRIBUTE_SEEN_MIN_AND_COMMA" ->
            parse_REFERENCE_RANGE_ATTRIBUTE_SEEN_MIN_AND_COMMA(p, token, state)
      [] state.state = "REFERENCE_RANGE_ATTRIBUTE_SEEN_MAX" ->
            parse_REFERENCE_RANGE_ATTRIBUTE_SEEN_MAX(p, token, state)
      [] state.state = "REPETITION_MODIFIER_INITIAL" -> parse_REPETITION_MODIFIER_INITIAL(p, token, state)
      [] state.state = "REPETITION_MODIFIER_SEEN_MIN" -> parse_REPETITION_MODIFIER_SEEN_MIN(p, token, state)
      [] state.state = "REPETITION_MODIFIER_SEEN_MIN_AND_COMMA" ->
            parse_REPETITION_MODIFIER_SEEN_MIN_AND_COMMA(p, token, state)
      [] state.state = "REPETITION_MODIFIER_SEEN_MAX" -> parse_REPETITION_MODIFIER_SEEN_MAX(p, token, state)
      [] state.state = "QUOTED_LITERAL_INITIAL" -> parse_QUOTED_LITERAL_INITIAL(p, token, state)
      [] state.state = "QUOTED_LITERAL_SEEN_ID" -> parse_QUOTED_LITERAL_SEEN_ID(p, token, state)
      [] state.state = "ANNOTATION_INITIAL" -> parse_ANNOTATION_INITIAL(p, token, state)
      [] state.state = "ANNOTATION_SEEN_ID" -> parse_ANNOTATION_SEEN_ID(p, token, state)
      [] state.state = "ANNOTATION_SEEN_EQUAL_OR_COMMA" -> parse_ANNOTATION_SEEN_EQUAL_OR_COMMA(p, token, state)
      [] state.state = "ANNOTATION_SEEN_VALUE" -> parse_ANNOTATION_SEEN_VALUE(p, token, state)
      \* PARSER_THUNKS has no entry for DONE
      [] OTHER -> raise(p, Error("KeyError", None, None, FALSE))

\* The end of parse, after the loop; `state` is the state name the last
\* iteration left in the loop variable.
parse_end(p, state) ==
    IF top(p).state # "DONE"
    THEN raise(p, Error("Unexpected state", None, state, FALSE))
    ELSE [p EXCEPT !.status = "returned"]

(***************************************************************************)
(* Terms.  `h` is the heap of term objects: h[i] is the term with identity *)
(* i.  A method that builds or changes terms is an operator giving the     *)
(* heap after the call, the term it returns and the exception it raised,   *)
(* if any.                                                                 *)
(***************************************************************************)
Returned(h, t) == [terms |-> h, res |-> t, err |-> None]
Raised(h, e) == [terms |-> h, res |-> 0, err |-> e]

\* Sequencing of two calls: an exception of the first one propagates, and
\* `next` is the rest of the caller otherwise.
Then(r, next(_)) == IF r.err # None THEN r ELSE next(r)

\* The attributes of every term class; a class uses the ones it has.
\*   name:     KeywordTerm.value.name, LiteralTerm.value, ReferenceTerm.name.name,
\*             FunctionTerm.name.name
\*   subterms: subterms of a Match* term, and the one subterm / repeated_term /
\*             parameter_group_term of the other composite terms
\*   list_type: the attribute `type` of the list-valued terms
NewTerm(type) ==
    [type |-> type, name |-> None, subterms |-> << >>,
     is_internal |-> FALSE, is_function_reference |-> FALSE, parameters |-> << >>,
     is_builtin |-> FALSE, separator |-> None, min |-> 0, max |-> 0,
     annotation |-> << >>, settings_flag |-> None, aliased_to |-> None,
     list_type |-> None, preserve_order |-> FALSE, single_value_optimization |-> TRUE,
     default |-> None]

MatchTermTypes ==
    { "MatchOneTerm", "MatchOneOrMoreAnyOrderTerm", "MatchAllOrderedTerm", "MatchAllAnyOrderTerm" }
ListTermTypes ==
    { "MatchOneOrMoreAnyOrderTerm", "MatchAllOrderedTerm", "MatchAllAnyOrderTerm",
      "UnboundedRepetitionTerm", "BoundedRepetitionTerm" }

\* The directives the _process_annotation method of a term class handles.
ProcessedDirectives(type) ==
    CASE type = "KeywordTerm" -> {"aliased-to", "settings-flag"}
      [] type \in {"ReferenceTerm", "MatchOneTerm", "FunctionTerm"} -> {"settings-flag"}
      [] type \in {"MatchOneOrMoreAnyOrderTerm", "MatchAllAnyOrderTerm"} ->
            {"type", "preserve-order", "no-single-item-opt", "settings-flag"}
      [] type \in {"MatchAllOrderedTerm", "UnboundedRepetitionTerm"} ->
            {"type", "no-single-item-opt", "settings-flag"}
      [] type = "BoundedRepetitionTerm" -> {"type", "no-single-item-opt", "default", "settings-flag"}
      [] OTHER -> {}

\* One iteration of the loop of _process_annotation for a handled directive.
process_directive(self, directive) ==
    CASE directive.name = "aliased-to" -> [self EXCEPT !.aliased_to = directive.value[1]]
      [] directive.name = "settings-flag" -> [self EXCEPT !.settings_flag = directive.value[1]]
      [] directive.name = "type" -> [self EXCEPT !.list_type = directive.value[1]]
      [] directive.name = "default" -> [self EXCEPT !.default = directive.value[1]]
      [] directive.name = "preserve-order" -> [self EXCEPT !.preserve_order = TRUE]
      [] directive.name = "no-single-item-opt" -> [self EXCEPT !.single_value_optimization = FALSE]

\* _process_annotation from directive i on: the term, or the exception of
\* the first directive that is not handled or whose value[0] does not exist.
RECURSIVE process_annotation(_, _)
process_annotation(self, i) ==
    IF i > Len(self.annotation) THEN [term |-> self, err |-> None]
    ELSE LET directive == self.annotation[i] IN
         IF directive.name \notin ProcessedDirectives(self.type)
         THEN [term |-> self, err |-> "Unknown annotation directive"]
         ELSE IF directive.name \notin {"preserve-order", "no-single-item-opt"} /\ directive.value = << >>
         THEN [term |-> self, err |-> "IndexError"]
         ELSE process_annotation(process_directive(self, directive), i + 1)

\* The end of the __init__ of a term class: the annotation is processed and
\* the new object gets the next identity.
allocate(h, r) ==
    IF r.err # None THEN Raised(h, r.err)
    ELSE Returned(Append(h, r.term), Len(h) + 1)
construct(h, self) == allocate(h, process_annotation(self, 1))

\* node.annotation / multiplier.annotation as the terms keep it: the
\* directives of the BNFAnnotation, none for None.
annotation_of(tree, annotation) ==
    IF annotation = 0 THEN << >>
    ELSE [i \in DOMAIN tree[annotation].members |->
            [name |-> tree[tree[annotation].members[i]].name,
             value |-> tree[tree[annotation].members[i]].value]]

\* ' '.join / ','.join of strings
RECURSIVE join(_, _)
join(strings, separator) ==
    IF strings = << >> THEN ""
    ELSE IF Len(strings) = 1 THEN strings[1]
    ELSE strings[1] \o separator \o join(Tail(strings), separator)

\* str() of a list of strings
list_str(value) == "[" \o join([i \in DOMAIN value |-> "'" \o value[i] \o "'"], ", ") \o "]"

\* BNFAnnotation.Directive.__str__ and BNFAnnotation.__str__
directive_str(directive) ==
    IF directive.value # << >> THEN directive.name \o "=" \o join(directive.value, ",")
    ELSE directive.name
stringified_annotation(self) ==
    IF self.annotation = << >> THEN ""
    ELSE "@(" \o join([i \in DOMAIN self.annotation |-> directive_str(self.annotation[i])], " ") \o ")"

\* ReferenceTerm.StringParameter.__str__ and ReferenceTerm.RangeParameter.__str__
parameter_str(parameter) ==
    IF parameter.type = "RangeParameter"
    THEN "[" \o parameter.min \o "," \o parameter.max \o "]"
    ELSE IF parameter.value # << >> THEN parameter.name \o "=" \o list_str(parameter.value)
    ELSE parameter.name

\* ReferenceTerm.__str__
ReferenceTerm_str(self) ==
    LET name == IF self.is_function_reference THEN self.name \o "()" ELSE self.name
        base == join(<< name >> \o [i \in DOMAIN self.parameters |-> parameter_str(self.parameters[i])], " ")
    IN IF self.is_internal
       THEN "<<" \o base \o ">>" \o stringified_annotation(self)
       ELSE "<" \o base \o ">" \o stringified_annotation(self)

\* ReferenceTerm.builtins: for each builtin name, whether it takes a range
\* parameter, and its string parameters with the keys of their mappings
\* (no keys: a parameter without mappings).
Allowed == {"allowed", "forbidden"}
BuiltinSchema ==
    LET entry(range, strings) == [range |-> range, strings |-> strings]
        none == [x \in {} |-> {}]
        unitless == [x \in {"unitless-zero"} |-> Allowed]
    IN [x \in {"angle", "length", "length-percentage", "time", "integer", "number", "percentage",
               "resolution", "number-or-percentage-resolved-to-number", "position", "color",
               "image", "string", "custom-ident", "dashed-ident", "url", "feature-tag-value",
               "variation-tag-value", "unicode-range-token"} |->
        CASE x \in {"angle", "length"} -> entry(TRUE, unitless)
          [] x = "length-percentage" ->
                entry(TRUE, [y \in {"unitless-zero", "anchor", "anchor-size"} |-> Allowed])
          [] x \in {"time", "integer", "number", "percentage", "resolution",
                    "number-or-percentage-resolved-to-number"} -> entry(TRUE, none)
          [] x = "color" -> entry(FALSE, [y \in {"allowed-types"} |-> {"absolute", "current", "system"}])
          [] x = "image" -> entry(FALSE, [y \in {"allowed-types"} |-> {"url", "image-set", "generated"}])
          [] x = "custom-ident" -> entry(FALSE, [y \in {"excluding"} |-> {}])
          [] x = "url" ->
                entry(FALSE, [y \in {"allowed-modifiers"} |-> {"crossorigin", "integrity", "referrerpolicy"}])
          [] OTHER -> entry(FALSE, none)]

\* builtin_schema_type_init: the exception the constructor of a builtin
\* raises for `parameters`, None when it accepts them.
builtin_schema_type_init(entry, parameters) ==
    LET bad(i) ==
            LET parameter == parameters[i]
                earlier == { j \in 1..(i - 1) : parameters[j].type = parameter.type
                                                /\ (parameter.type = "RangeParameter"
                                                    \/ parameters[j].name = parameter.name) }
            IN IF parameter.type = "StringParameter"
               THEN \/ parameter.name \notin DOMAIN entry.strings
                    \/ earlier # {}
                    \/ /\ entry.strings[parameter.name] # {}
                       /\ \/ parameter.value = << >>
                          \/ \E k \in DOMAIN parameter.value :
                                parameter.value[k] \notin entry.strings[parameter.name]
               ELSE ~entry.range \/ earlier # {}
    IN IF \E i \in DOMAIN parameters : bad(i) THEN "Exception" ELSE None

\* The type attribute of a new list-valued term.
with_list_type(self) ==
    IF self.type \in ListTermTypes THEN [self EXCEPT !.list_type = "CSSValueList"] ELSE self

\* ReferenceTerm.Parameter.from_node
Parameter_from_node(node) ==
    IF node.type = "StringAttribute"
    THEN [type |-> "StringParameter", name |-> node.name, value |-> node.value, min |-> None, max |-> None]
    ELSE [type |-> "RangeParameter", name |-> None, value |-> << >>, min |-> node.min, max |-> node.max]

\* ReferenceTerm.from_node and ReferenceTerm.__init__
ReferenceTerm_from_node(tree, h, n) ==
    LET node == tree[n]
        parameters == [i \in DOMAIN node.members |-> Parameter_from_node(tree[node.members[i]])]
        builtin == IF node.name \in DOMAIN BuiltinSchema
                   THEN builtin_schema_type_init(BuiltinSchema[node.name], parameters)
                   ELSE None
    IN IF builtin # None THEN Raised(h, builtin)
       ELSE construct(h, [NewTerm("ReferenceTerm") EXCEPT
                            !.name = node.name,
                            !.is_internal = node.is_internal,
                            !.is_function_reference = node.is_function_reference,
                            !.parameters = parameters,
                            !.is_builtin = node.name \in DOMAIN BuiltinSchema,
                            !.annotation = annotation_of(tree, node.annotation)])

\* KeywordTerm.from_node
KeywordTerm_from_node(tree, h, n) ==
    construct(h, [NewTerm("KeywordTerm") EXCEPT !.name = tree[n].name,
                                                !.annotation = annotation_of(tree, tree[n].annotation)])

\* LiteralTerm.from_node: the annotation of the node is not passed on.
LiteralTerm_from_node(tree, h, n) ==
    Returned(Append(h, [NewTerm("LiteralTerm") EXCEPT !.name = tree[n].name]), Len(h) + 1)

\* The wrapping_term methods of OptionalTerm, UnboundedRepetitionTerm and
\* BoundedRepetitionTerm.
wrapping_term(h, type, term, separator, min, max, annotation) ==
    construct(h, with_list_type([NewTerm(type) EXCEPT !.subterms = << term >>,
                                                      !.separator = separator,
                                                      !.min = min, !.max = max,
                                                      !.annotation = annotation]))

\* Term.wrap_with_multiplier with every separator a space.
wrap_with_multiplier_space(tree, h, multiplier, term) ==
    LET annotation == annotation_of(tree, multiplier.annotation)
        min == tree[multiplier.range].rmin
        max == tree[multiplier.range].rmax
        kind == multiplier.kind
    IN CASE kind = "ZERO_OR_ONE" -> wrapping_term(h, "OptionalTerm", term, None, 0, 0, annotation)
         [] kind = "SPACE_SEPARATED_ZERO_OR_MORE" ->
                wrapping_term(h, "UnboundedRepetitionTerm", term, " ", 0, 0, annotation)
         [] kind \in {"SPACE_SEPARATED_ONE_OR_MORE", "COMMA_SEPARATED_ONE_OR_MORE"} ->
                wrapping_term(h, "UnboundedRepetitionTerm", term, " ", 1, 0, annotation)
         [] kind \in {"SPACE_SEPARATED_EXACT", "COMMA_SEPARATED_EXACT"} ->
                wrapping_term(h, "BoundedRepetitionTerm", term, " ", min, min, annotation)
         [] kind \in {"SPACE_SEPARATED_AT_LEAST", "COMMA_SEPARATED_AT_LEAST"} ->
                wrapping_term(h, "UnboundedRepetitionTerm", term, " ", min, 0, annotation)
         [] kind \in {"SPACE_SEPARATED_BETWEEN", "COMMA_SEPARATED_BETWEEN"} ->
                wrapping_term(h, "BoundedRepetitionTerm", term, " ", min, max, annotation)

\* Term.wrap_with_multiplier.  An UnboundedRepetitionTerm has no max.
wrap_with_multiplier(tree, h, multiplier, term) ==
    LET annotation == annotation_of(tree, multiplier.annotation)
        min == tree[multiplier.range].rmin
        max == tree[multiplier.range].rmax
        kind == multiplier.kind
    IN CASE kind = "ZERO_OR_ONE" -> wrapping_term(h, "OptionalTerm", term, None, 0, 0, annotation)
         [] kind = "SPACE_SEPARATED_ZERO_OR_MORE" ->
                wrapping_term(h, "UnboundedRepetitionTerm", term, " ", 0, 0, annotation)
         [] kind = "SPACE_SEPARATED_ONE_OR_MORE" ->
                wrapping_term(h, "UnboundedRepetitionTerm", term, " ", 1, 0, annotation)
         [] kind = "SPACE_SEPARATED_EXACT" ->
                wrapping_term(h, "BoundedRepetitionTerm", term, " ", min, min, annotation)
         [] kind = "SPACE_SEPARATED_AT_LEAST" ->
                wrapping_term(h, "UnboundedRepetitionTerm", term, " ", min, 0, annotation)
         [] kind = "SPACE_SEPARATED_BETWEEN" ->
                wrapping_term(h, "BoundedRepetitionTerm", term, " ", min, max, annotation)
         [] kind = "COMMA_SEPARATED_ONE_OR_MORE" ->
                wrapping_term(h, "UnboundedRepetitionTerm", term, ",", 1, 0, annotation)
         [] kind = "COMMA_SEPARATED_EXACT" ->
                wrapping_term(h, "BoundedRepetitionTerm", term, ",", min, min, annotation)
         [] kind = "COMMA_SEPARATED_AT_LEAST" ->
                wrapping_term(h, "UnboundedRepetitionTerm", term, ",", min, 0, annotation)
         [] kind = "COMMA_SEPARATED_BETWEEN" ->
                wrapping_term(h, "BoundedRepetitionTerm", term, ",", min, max, annotation)

\* BNFGroupingNode.Kind -> the term class whose from_node Term.from_node calls
TermForKind ==
    [MATCH_ALL_ORDERED |-> "MatchAllOrderedTerm", MATCH_ONE |-> "MatchOneTerm",
     MATCH_ALL_ANY_ORDER |-> "MatchAllAnyOrderTerm",
     MATCH_ONE_OR_MORE_ANY_ORDER |-> "MatchOneOrMoreAnyOrderTerm"]

RECURSIVE from_node(_, _, _)
RECURSIVE from_members(_, _, _, _, _)
RECURSIVE from_grouping(_, _, _, _, _)

\* list(compact_map(lambda member: Term.from_node(member), node.members)),
\* from member i on; `acc` holds the terms of the members before i.
from_members(tree, h, members, i, acc) ==
    IF i > Len(members) THEN Returned(h, acc)
    ELSE Then(from_node(tree, h, members[i]),
              LAMBDA r : from_members(tree, r.terms, members, i + 1, Append(acc, r.res)))

\* The BNFGroupingNode branch, were a grouping of one member converted as
\* every other grouping is.
from_grouping_wrapping(tree, h, kind, members, annotation) ==
    Then(from_members(tree, h, members, 1, << >>),
         LAMBDA r : construct(r.terms, with_list_type([NewTerm(TermForKind[kind]) EXCEPT
                                               !.subterms = r.res,
                                               !.annotation = annotation_of(tree, annotation)])))

\* The BNFGroupingNode branch of Term.from_node with the from_node of the
\* Match* classes, for a grouping of this kind, members and annotation.
from_grouping(tree, h, kind, members, annotation) ==
    IF kind = "MATCH_ALL_ORDERED" /\ Len(members) = 1
    THEN from_node(tree, h, members[1])
    ELSE Then(from_members(tree, h, members, 1, << >>),
              LAMBDA r : construct(r.terms, with_list_type([NewTerm(TermForKind[kind]) EXCEPT
                                                    !.subterms = r.res,
                                                    !.annotation = annotation_of(tree, annotation)])))

\* FunctionTerm.from_node: the parameter_group of the node is a grouping
\* without annotation or multiplier.
FunctionTerm_from_node(tree, h, n) ==
    Then(from_grouping(tree, h, tree[n].kind, tree[n].members, 0),
         LAMBDA r : construct(r.terms, [NewTerm("FunctionTerm") EXCEPT
                                          !.name = tree[n].name,
                                          !.subterms = << r.res >>,
                                          !.annotation = annotation_of(tree, tree[n].annotation)]))

\* Term.from_node
from_node(tree, h, n) ==
    Then(CASE tree[n].type = "BNFGroupingNode" ->
                from_grouping(tree, h, tree[n].kind, tree[n].members, tree[n].annotation)
           [] tree[n].type = "BNFReferenceNode" -> ReferenceTerm_from_node(tree, h, n)
           [] tree[n].type = "BNFFunctionNode" -> FunctionTerm_from_node(tree, h, n)
           [] tree[n].type = "BNFKeywordNode" -> KeywordTerm_from_node(tree, h, n)
           [] tree[n].type = "BNFLiteralNode" -> LiteralTerm_from_node(tree, h, n)
           [] OTHER -> Raised(h, "Unknown node"),
         LAMBDA term : IF tree[n].multiplier.kind # None
                       THEN wrap_with_multiplier(tree, term.terms, tree[n].multiplier, term.res)
                       ELSE term)

(***************************************************************************)
(* Fixups.  `rules` is SharedGrammarRules.rules: the rules in the order of *)
(* the JSON object, each with its name and the root_term of its grammar.   *)
(***************************************************************************)
\* The deepest chain of rule substitutions the interpreter's stack holds.
MaxDepth == 3

rules_by_name(rules, name) == { i \in DOMAIN rules : rules[i].name = name }

WrapperTermTypes == { "OptionalTerm", "UnboundedRepetitionTerm", "BoundedRepetitionTerm", "FunctionTerm" }

\* The end of the perform_fixups methods of the Match* classes: the new
\* subterm list is stored, and a single subterm is returned in place of self.
store_subterms(h, t, subterms) ==
    LET h2 == [h EXCEPT ![t].subterms = subterms] IN
    IF Len(subterms) = 1 THEN Returned(h2, subterms[1]) ELSE Returned(h2, t)

\* MatchOneTerm.simplify merging every nested MatchOneTerm, its
\* settings_flag set or not.
simplify_merging(h, acc, subterm) ==
    IF h[subterm].type = "MatchOneTerm"
    THEN Returned(h, acc \o h[subterm].subterms)
    ELSE Returned(h, Append(acc, subterm))

\* MatchOneTerm.simplify for one subterm: `acc` is simplified_subterms.
simplify(h, acc, subterm) ==
    IF h[subterm].type = "MatchOneTerm"
    THEN IF h[subterm].settings_flag # None
         THEN Raised(h, "Simplifying is not yet supported")
         ELSE Returned(h, acc \o h[subterm].subterms)
    ELSE Returned(h, Append(acc, subterm))

RECURSIVE perform_fixups(_, _, _, _)
RECURSIVE perform_fixups_of_subterms(_, _, _, _, _, _, _)
RECURSIVE perform_fixups_simplify_first(_, _, _, _, _)

\* The subterms of self from i on: each is fixed up and, in a MatchOneTerm,
\* handed to simplify before the next one is fixed up.
perform_fixups_of_subterms(h, subterms, i, acc, simplifying, rules, depth) ==
    IF i > Len(subterms) THEN Returned(h, acc)
    ELSE Then(Then(perform_fixups(h, subterms[i], rules, depth),
                   LAMBDA r : IF simplifying THEN simplify(r.terms, acc, r.res)
                              ELSE Returned(r.terms, Append(acc, r.res))),
              LAMBDA q : perform_fixups_of_subterms(q.terms, subterms, i + 1, q.res, simplifying, rules, depth))

\* ReferenceTerm.perform_fixups returning self whatever the rules are.
ReferenceTerm_perform_fixups_unresolved(h, t, rules, depth) == Returned(h, t)

\* ReferenceTerm.perform_fixups
ReferenceTerm_perform_fixups(h, t, rules, depth) ==
    LET name_for_lookup == ReferenceTerm_str(h[t]) IN
    IF rules_by_name(rules, name_for_lookup) # {}
    THEN IF depth = 0 THEN Raised(h, "RecursionError")
         ELSE LET rule == rules[CHOOSE i \in rules_by_name(rules, name_for_lookup) : TRUE] IN
              perform_fixups(h, rule.root_term, rules, depth - 1)
    ELSE Returned(h, t)

\* MatchOneTerm.perform_fixups simplifying the subterms before they are
\* fixed up.
MatchOneTerm_perform_fixups_simplify_first(h, t, rules, depth) ==
    perform_fixups_simplify_first(h, t, 1, << >>, [rules |-> rules, depth |-> depth])

perform_fixups_simplify_first(h, t, i, acc, with) ==
    IF i > Len(h[t].subterms)
    THEN Then(perform_fixups_of_subterms(h, acc, 1, << >>, FALSE, with.rules, with.depth),
              LAMBDA r : store_subterms(r.terms, t, r.res))
    ELSE Then(simplify(h, acc, h[t].subterms[i]),
              LAMBDA q : perform_fixups_simplify_first(q.terms, t, i + 1, q.res, with))

\* MatchOneTerm.perform_fixups
MatchOneTerm_perform_fixups(h, t, rules, depth) ==
    Then(perform_fixups_of_subterms(h, h[t].subterms, 1, << >>, TRUE, rules, depth),
         LAMBDA r : store_subterms(r.terms, t, r.res))

\* The perform_fixups method of the class of term t.
perform_fixups(h, t, rules, depth) ==
    CASE h[t].type = "ReferenceTerm" -> ReferenceTerm_perform_fixups(h, t, rules, depth)
      [] h[t].type = "MatchOneTerm" -> MatchOneTerm_perform_fixups(h, t, rules, depth)
      [] h[t].type \in MatchTermTypes \ {"MatchOneTerm"} ->
            Then(perform_fixups_of_subterms(h, h[t].subterms, 1, << >>, FALSE, rules, depth),
                 LAMBDA r : store_subterms(r.terms, t, r.res))
      [] h[t].type \in WrapperTermTypes ->
            Then(perform_fixups(h, h[t].subterms[1], rules, depth),
                 LAMBDA r : Returned([r.terms EXCEPT ![t].subterms = << r.res >>], t))
      [] OTHER -> Returned(h, t)

\* SharedGrammarRules._perform_fixups from rule i on: Grammar.perform_fixups
\* of each rule in turn.  res is the rules with their new root terms.
RECURSIVE SharedGrammarRules_perform_fixups(_, _, _)
SharedGrammarRules_perform_fixups(h, rules, i) ==
    IF i > Len(rules) THEN Returned(h, rules)
    ELSE Then(perform_fixups(h, rules[i].root_term, rules, MaxDepth),
              LAMBDA r : SharedGrammarRules_perform_fixups(
                            r.terms, [rules EXCEPT ![i].root_term = r.res], i + 1))

(***************************************************************************)
(* Values and `<<values>>` references.                                     *)
(***************************************************************************)
\* The status designations for which Value.from_json returns None.
SkippedStatus == { "unimplemented", "removed", "not considering" }

\* Value.from_json for every entry of the "values" array, None results
\* dropped: each Value is built with its keyword_term.
RECURSIVE Values_from_json(_, _, _, _)
Values_from_json(h, json, i, acc) ==
    IF i > Len(json) THEN Returned(h, acc)
    ELSE IF json[i].status \in SkippedStatus THEN Values_from_json(h, json, i + 1, acc)
    ELSE Values_from_json(Append(h, [NewTerm("KeywordTerm") EXCEPT !.name = json[i].value]),
                          json, i + 1,
                          Append(acc, [name |-> json[i].value, keyword_term |-> Len(h) + 1]))

\* MatchOneTerm.from_values
from_values(h, values) ==
    construct(h, [NewTerm("MatchOneTerm") EXCEPT
                    !.subterms = [i \in DOMAIN values |-> values[i].keyword_term]])

RECURSIVE perform_fixups_for_values_references(_, _, _)
RECURSIVE perform_fixups_for_values_references_of_subterms(_, _, _, _, _, _)

perform_fixups_for_values_references_of_subterms(h, subterms, i, acc, simplifying, values) ==
    IF i > Len(subterms) THEN Returned(h, acc)
    ELSE Then(Then(perform_fixups_for_values_references(h, subterms[i], values),
                   LAMBDA r : IF simplifying THEN simplify(r.terms, acc, r.res)
                              ELSE Returned(r.terms, Append(acc, r.res))),
              LAMBDA q : perform_fixups_for_values_references_of_subterms(
                            q.terms, subterms, i + 1, q.res, simplifying, values))

\* ReferenceTerm.perform_fixups_for_values_references replacing every
\* internal reference.
ReferenceTerm_perform_fixups_for_values_references_any_name(h, t, values) ==
    IF h[t].is_internal THEN from_values(h, values) ELSE Returned(h, t)

\* ReferenceTerm.perform_fixups_for_values_references
ReferenceTerm_perform_fixups_for_values_references(h, t, values) ==
    IF h[t].is_internal /\ h[t].name = "values" THEN from_values(h, values) ELSE Returned(h, t)

\* The perform_fixups_for_values_references method of the class of term t.
perform_fixups_for_values_references(h, t, values) ==
    CASE h[t].type = "ReferenceTerm" -> ReferenceTerm_perform_fixups_for_values_references(h, t, values)
      [] h[t].type \in MatchTermTypes ->
            Then(perform_fixups_for_values_references_of_subterms(
                    h, h[t].subterms, 1, << >>, h[t].type = "MatchOneTerm", values),
                 LAMBDA r : store_subterms(r.terms, t, r.res))
      [] h[t].type \in WrapperTermTypes ->
            Then(perform_fixups_for_values_references(h, h[t].subterms[1], values),
                 LAMBDA r : Returned([r.terms EXCEPT ![t].subterms = << r.res >>], t))
      [] OTHER -> Returned(h, t)

\* supported_keywords, were the wrappers not passed through.
supported_keywords_shallow(h, t) ==
    IF h[t].type = "KeywordTerm" THEN { h[t].name }
    ELSE { h[h[t].subterms[i]].name :
             i \in { j \in DOMAIN h[t].subterms : h[h[t].subterms[j]].type = "KeywordTerm" } }

RECURSIVE supported_keywords(_, _)
supported_keywords(h, t) ==
    CASE h[t].type = "KeywordTerm" -> { h[t].name }
      [] h[t].type \in {"ReferenceTerm", "LiteralTerm"} -> {}
      [] OTHER -> UNION { supported_keywords(h, h[t].subterms[i]) : i \in DOMAIN h[t].subterms }

RECURSIVE has_non_builtin_reference_terms(_, _)
has_non_builtin_reference_terms(h, t) ==
    CASE h[t].type = "ReferenceTerm" -> ~h[t].is_builtin
      [] h[t].type \in {"KeywordTerm", "LiteralTerm"} -> FALSE
      [] OTHER -> \E i \in DOMAIN h[t].subterms : has_non_builtin_reference_terms(h, h[t].subterms[i])

\* The comparison of Grammar.check_against_values.
compare_keywords(keywords_supported_by_grammar, keywords_listed_as_values) ==
    IF keywords_supported_by_grammar \ keywords_listed_as_values # {}
    THEN "Found some keywords in parser grammar not list in 'values' array"
    ELSE IF keywords_listed_as_values \ keywords_supported_by_grammar # {}
    THEN "Found some keywords in 'values' array not supported by the parser grammar"
    ELSE None

\* Grammar.check_against_values comparing the keywords whatever the
\* references of the grammar are.
check_against_values_unconditional(h, root_term, values) ==
    compare_keywords(supported_keywords(h, root_term), { values[i].name : i \in DOMAIN values })

\* Grammar.check_against_values: the exception it raises, None when it returns.
check_against_values(h, root_term, values) ==
    IF has_non_builtin_reference_terms(h, root_term) THEN None
    ELSE compare_keywords(supported_keywords(h, root_term), { values[i].name : i \in DOMAIN values })

\* KeywordTerm.is_eligible_for_fast_path
is_eligible_for_fast_path(self) == self.aliased_to = None

\* Grammar.has_only_fast_path_keyword_terms with MatchOneTerm.has_only_fast_path_keyword_terms
has_only_fast_path_keyword_terms(h, root_term) ==
    /\ h[root_term].type = "MatchOneTerm"
    /\ \A i \in DOMAIN h[root_term].subterms :
          /\ h[h[root_term].subterms[i]].type = "KeywordTerm"
          /\ is_eligible_for_fast_path(h[h[root_term].subterms[i]])

(***************************************************************************)
(* PropertyConsumer.make and the term generators its consumers build.      *)
(***************************************************************************)
\* The sub_term types _build_term_generators has a partition for, in the
\* order in which it builds their generators.
MatchOnePartitions ==
    << "ReferenceTerm", "FunctionTerm", "UnboundedRepetitionTerm", "BoundedRepetitionTerm",
       "MatchOneOrMoreAnyOrderTerm", "MatchAllOrderedTerm", "MatchAllAnyOrderTerm" >>

\* The first exception of a sequence of results, None when there is none.
first_exception(results) ==
    IF \E i \in DOMAIN results : results[i] # None
    THEN results[CHOOSE i \in DOMAIN results :
                    results[i] # None /\ \A j \in 1..(i - 1) : results[j] = None]
    ELSE None

\* TermGenerator.make(term): the exception the constructor of the generator
\* raises, None when the generator is built.
RECURSIVE TermGenerator_make(_, _)
TermGenerator_make(h, t) ==
    LET subterms == h[t].subterms
        of_type(type) == SelectSeq(subterms, LAMBDA u : h[u].type = type)
        partitioned == of_type(MatchOnePartitions[1]) \o of_type(MatchOnePartitions[2])
                       \o of_type(MatchOnePartitions[3]) \o of_type(MatchOnePartitions[4])
                       \o of_type(MatchOnePartitions[5]) \o of_type(MatchOnePartitions[6])
                       \o of_type(MatchOnePartitions[7])
    IN CASE h[t].type = "MatchOneTerm" ->
                IF \E i \in DOMAIN subterms :
                      h[subterms[i]].type \in {"OptionalTerm", "LiteralTerm", "MatchOneTerm"}
                THEN "Unsupported term"
                ELSE first_exception([i \in DOMAIN partitioned |-> TermGenerator_make(h, partitioned[i])])
         [] h[t].type \in MatchTermTypes \ {"MatchOneTerm"} \/ h[t].type \in WrapperTermTypes ->
                first_exception([i \in DOMAIN subterms |-> TermGenerator_make(h, subterms[i])])
         \* TermGeneratorLiteralTerm reads term.requires_state, which LiteralTerm lacks
         [] h[t].type = "LiteralTerm" -> "AttributeError"
         [] OTHER -> None

\* The places in the subterms of `term` of the subterms that satisfy `select`,
\* in the order of the subterms.
places(h, term, select(_)) ==
    SelectSeq([i \in DOMAIN h[term].subterms |-> i], LAMBDA i : select(h[h[term].subterms[i]]))

\* One generator of TermGenerator.make for each subterm of a partition: the
\* class of the generator and the place of the alternative it is for.
generators_of_partition(h, term, type) ==
    LET partition == places(h, term, LAMBDA sub_term : sub_term.type = type)
    IN [k \in DOMAIN partition |->
          [generator |-> "TermGenerator" \o type, alternatives |-> << partition[k] >>]]

\* The list _build_term_generators builds for the partitions in the order
\* `order`: one generator for the keywords of the fast path, one for the
\* other keywords, then the generators of the partitions.
term_generators_in(h, term, keyword_fast_path_generator, order) ==
    LET fast_path_keyword_terms ==
            places(h, term, LAMBDA sub_term : /\ sub_term.type = "KeywordTerm"
                                              /\ keyword_fast_path_generator
                                              /\ is_eligible_for_fast_path(sub_term))
        non_fast_path_keyword_terms ==
            places(h, term, LAMBDA sub_term : /\ sub_term.type = "KeywordTerm"
                                              /\ ~(/\ keyword_fast_path_generator
                                                   /\ is_eligible_for_fast_path(sub_term)))
    IN (IF fast_path_keyword_terms # << >>
        THEN << [generator |-> "TermGeneratorFastPathKeywordTerms",
                 alternatives |-> fast_path_keyword_terms] >>
        ELSE << >>)
       \o (IF non_fast_path_keyword_terms # << >>
           THEN << [generator |-> "TermGeneratorNonFastPathKeywordTerm",
                    alternatives |-> non_fast_path_keyword_terms] >>
           ELSE << >>)
       \o generators_of_partition(h, term, order[1]) \o generators_of_partition(h, term, order[2])
       \o generators_of_partition(h, term, order[3]) \o generators_of_partition(h, term, order[4])
       \o generators_of_partition(h, term, order[5]) \o generators_of_partition(h, term, order[6])
       \o generators_of_partition(h, term, order[7])

\* TermGeneratorMatchOneTerm._build_term_generators, were the generators
\* of the functions built before the generators of the references.
build_term_generators_functions_first(h, term, keyword_fast_path_generator) ==
    term_generators_in(h, term, keyword_fast_path_generator,
                       << "FunctionTerm", "ReferenceTerm" >> \o SubSeq(MatchOnePartitions, 3, 7))

\* TermGeneratorMatchOneTerm._build_term_generators
build_term_generators(h, term, keyword_fast_path_generator) ==
    term_generators_in(h, term, keyword_fast_path_generator, MatchOnePartitions)

\* Grammar.has_fast_path_keyword_terms, of which
\* GeneratedPropertyConsumer._build_keyword_fast_path_generator makes the
\* generator: whether there is one.
has_fast_path_keyword_terms(h, root_term) ==
    /\ h[root_term].type = "MatchOneTerm"
    /\ \E i \in DOMAIN h[root_term].subterms :
          /\ h[h[root_term].subterms[i]].type = "KeywordTerm"
          /\ is_eligible_for_fast_path(h[h[root_term].subterms[i]])

Consumers ==
    { "SkipPropertyConsumer", "CustomPropertyConsumer", "FastPathKeywordOnlyPropertyConsumer",
      "DirectPropertyConsumer", "GeneratedPropertyConsumer" }

\* GeneratedPropertyConsumer.__init__, given what TermGenerator.make did:
\* term_generator.term_generators is kept for a root term that is a
\* MatchOneTerm.
GeneratedPropertyConsumer(h, root_term, term_generator) ==
    IF term_generator # None
    THEN [consumer |-> None, err |-> term_generator, term_generators |-> << >>]
    ELSE [consumer |-> "GeneratedPropertyConsumer", err |-> None,
          term_generators |-> IF h[root_term].type = "MatchOneTerm"
                              THEN build_term_generators(h, root_term,
                                                         has_fast_path_keyword_terms(h, root_term))
                              ELSE << >>]

\* A consumer without term generators.
Consumer(class) == [consumer |-> class, err |-> None, term_generators |-> << >>]

\* PropertyConsumer.make: the class of the consumer it returns, or the
\* exception it raises.
make(h, property, root_term) ==
    IF property.longhands \/ property.skip_parser
    THEN Consumer("SkipPropertyConsumer")
    ELSE IF property.parser_function
    THEN Consumer("CustomPropertyConsumer")
    ELSE IF property.parser_grammar
    THEN IF has_only_fast_path_keyword_terms(h, root_term)
         THEN Consumer("FastPathKeywordOnlyPropertyConsumer")
         ELSE IF h[root_term].type = "ReferenceTerm"
         THEN Consumer("DirectPropertyConsumer")
         ELSE GeneratedPropertyConsumer(h, root_term, TermGenerator_make(h, root_term))
    ELSE [consumer |-> None, err |-> "Invalid property definition", term_generators |-> << >>]

(***************************************************************************)
(* BNFParser.parse as a function of the tokens BNFLexer yields.            *)
(***************************************************************************)
\* The loop of parse from token i on; `state` is the loop variable.
RECURSIVE parse_from(_, _, _, _)
parse_from(p, tokens, i, state) ==
    IF p.status = "raised" THEN p
    ELSE IF i > Len(tokens) THEN parse_end(p, state)
    ELSE parse_from(parse_token(p, tokens[i]), tokens, i + 1, top(p).state)

EofToken == BNFTokenInfo(BNF_EOF_TOKEN, "\\x00")

\* BNFParser(parsing_context, key_path, data).parse() for the data whose
\* tokens before EOF are `tokens`.
parse(tokens) == parse_from(BNFParser, Append(tokens, EofToken), 1, None)

\* Grammar.from_string: the parse, then Term.from_node of its root.
root_from_node(h, p) ==
    IF p.status = "raised" THEN Raised(h, p.error.kind)
    ELSE from_node(p.nodes, h, 1)
from_string(h, tokens) == root_from_node(h, parse(tokens))

\* SharedGrammarRules.from_json up to the constructor: SharedGrammarRule.from_json
\* of every entry of the JSON object, from entry i on.
RECURSIVE SharedGrammarRule_from_json(_, _, _, _)
SharedGrammarRule_from_json(h, json, i, acc) ==
    IF i > Len(json) THEN Returned(h, acc)
    ELSE Then(from_string(h, json[i].grammar),
              LAMBDA r : SharedGrammarRule_from_json(
                            r.terms, json, i + 1,
                            Append(acc, [name |-> json[i].name, root_term |-> r.res])))

\* SharedGrammarRules.from_json
SharedGrammarRules_from_json(json) ==
    Then(SharedGrammarRule_from_json(<< >>, json, 1, << >>),
         LAMBDA r : SharedGrammarRules_perform_fixups(r.terms, r.res, 1))

(***************************************************************************)
(* The registry of properties and descriptors.  A JSON object is a         *)
(* function from its keys; `x \in DOMAIN json` is `"x" in json_value`.     *)
(***************************************************************************)

\* dict.get(key, default)
get(json, key, default) == IF key \in DOMAIN json THEN json[key] ELSE default

\* The result of a from_json or of a fixup: the object, or the exception.
Built(object) == [err |-> None, res |-> object]
Failed(exception) == [err |-> exception, res |-> None]

\* list(BNFLexer(data)) from `pos` on, without the EOF token that ends it.
RECURSIVE BNFLexer(_, _)
BNFLexer(d, pos) ==
    IF pos >= Len(d) THEN << >>
    ELSE LET token_id == first_match(d, pos)
         IN IF token_id = None
            THEN << BNFTokenInfo(BNF_ILLEGAL_TOKEN, CharAt(d, pos)) >> \o BNFLexer(d, pos + 1)
            ELSE IF token_id = "WHITESPACE" THEN BNFLexer(d, match(token_id, d, pos))
            ELSE << BNFTokenInfo(token_id, SubSeq(d, pos + 1, match(token_id, d, pos))) >>
                 \o BNFLexer(d, match(token_id, d, pos))

\* LogicalPropertyGroup.logical_property_group_resolvers
logical_property_group_resolvers ==
    [logical |-> [axis |-> << "inline", "block" >>,
                  side |-> << "block-start", "inline-end", "block-end", "inline-start" >>,
                  corner |-> << "start-start", "start-end", "end-start", "end-end" >>],
     physical |-> [axis |-> << "horizontal", "vertical" >>,
                   side |-> << "top", "right", "bottom", "left" >>,
                   corner |-> << "top-left", "top-right", "bottom-left", "bottom-right" >>]]

\* A codegen_properties.logical_property_group of None.
NoLogicalPropertyGroup == [name |-> None, resolver |-> None, kind |-> None, logic |-> None]

\* LogicalPropertyGroup.from_json with _update_kind_and_logic: no resolver
\* is in two lists of the table, so that the first list that holds the
\* resolver is the one list that does.
LogicalPropertyGroup_from_json(json) ==
    LET holds(logic, kind) ==
            \E i \in DOMAIN logical_property_group_resolvers[logic][kind] :
                logical_property_group_resolvers[logic][kind][i] = json.resolver
        found == { lk \in {"logical", "physical"} \X {"axis", "side", "corner"} : holds(lk[1], lk[2]) }
    IN IF found = {} THEN Failed("Unrecognized resolver")
       ELSE LET lk == CHOOSE x \in found : TRUE
            IN Built([name |-> json.name, resolver |-> json.resolver, kind |-> lk[2], logic |-> lk[1]])

\* A parser_grammar or parser_grammar_unused that is None or "".
NoGrammarObject == [text |-> "", terms |-> << >>, root_term |-> 0]

\* Grammar.from_string and Grammar.perform_fixups of a grammar text, with no
\* shared grammar rule.
Grammar_from_string(text) ==
    LET r == Then(from_string(<< >>, BNFLexer(text, 0)),
                  LAMBDA g : perform_fixups(g.terms, g.res, << >>, MaxDepth))
    IN IF r.err # None THEN Failed(r.err)
       ELSE Built([text |-> text, terms |-> r.terms, root_term |-> r.res])

\* The first exception of a list of checks, each a pair of a condition and
\* the exception raised when it holds; None when no condition holds.
RECURSIVE first_raised(_, _)
first_raised(checks, i) ==
    IF i > Len(checks) THEN None
    ELSE IF checks[i][1] THEN checks[i][2]
    ELSE first_raised(checks, i + 1)

\* The validations of StylePropertyCodeGenProperties.from_json that read
\* only the JSON object, in the order of the code, up to the parser-grammar.
codegen_checks_before_grammar(json) ==
    LET is_shorthand == get(json, "longhands", << >>) # << >>
        is_top == get(json, "top-priority", FALSE)
        is_high == get(json, "high-priority", FALSE)
        is_medium == get(json, "medium-priority", FALSE)
        is_sink == get(json, "sink-priority", FALSE)
    IN << << "logical-property-group" \in DOMAIN json /\ is_shorthand,
             "is a shorthand, but belongs to a logical property group" >>,
          << "logical-property-group" \in DOMAIN json
                /\ LogicalPropertyGroup_from_json(get(json, "logical-property-group", NoLogicalPropertyGroup)).err # None,
             "Unrecognized resolver" >>,
          << is_top /\ "top-priority-reason" \notin DOMAIN json, "has top priority, but no reason justifying it" >>,
          << is_top /\ is_shorthand, "is a shorthand, but has top priority" >>,
          << is_top /\ is_high, "can't have conflicting top/high priority" >>,
          << is_top /\ is_medium, "can't have conflicting top/medium priority" >>,
          << is_high /\ is_medium, "can't have conflicting high/medium priority" >>,
          << is_high /\ is_shorthand, "is a shorthand, but has high priority" >>,
          << is_medium /\ is_shorthand, "is a shorthand, but has medium priority" >>,
          \* an empty "longhands" list was deleted from the object before
          << is_sink /\ is_shorthand, "is a shorthand, but has sink priority" >>,
          << get(json, "parser-grammar", "") # "" /\ "parser-function" \in DOMAIN json,
             "can't have both 'parser-grammar' and 'parser-function'" >>,
          << get(json, "parser-grammar", "") # "" /\ "skip-parser" \in DOMAIN json,
             "can't have both 'parser-grammar' and 'skip-parser'" >> >>

\* The validations after the parser-grammar-unused.
codegen_checks_after_grammar(json) ==
    << << get(json, "parser-grammar-unused-reason", "") # "" /\ "parser-grammar-unused" \notin DOMAIN json,
          "must have 'parser-grammar-unused' specified when using 'parser-grammar-unused-reason'" >>,
       << get(json, "parser-function", "") # "" /\ "parser-grammar-unused" \notin DOMAIN json,
          "must have 'parser-grammar-unused' specified when using 'parser-function'" >>,
       << get(json, "parser-function", "") # "" /\ "skip-parser" \in DOMAIN json,
          "can't have both 'parser-function' and 'skip-parser'" >>,
       << get(json, "parser-function", "") # "" /\ "parser-grammar" \in DOMAIN json,
          "can't have both 'parser-function' and 'parser-grammar'" >> >>

\* The grammar objects of the keys "parser-grammar" and "parser-grammar-unused"
\* of the JSON object: Grammar.from_string and perform_fixups when the value
\* is a non-empty text.
grammars_of_keys(json) ==
    [key \in {"parser-grammar", "parser-grammar-unused"} |->
        IF get(json, key, "") # "" THEN Grammar_from_string(json[key]) ELSE Built(NoGrammarObject)]

\* StylePropertyCodeGenProperties.from_json, given the grammar objects of
\* its two grammar keys: the object built, or the exception raised.  The
\* exceptions of a grammar are raised where the code parses it.
StylePropertyCodeGenProperties_with(name, json, before, grammars, after) ==
    IF before # None THEN Failed(before)
    ELSE IF grammars["parser-grammar"].err # None THEN Failed(grammars["parser-grammar"].err)
    ELSE IF get(json, "parser-grammar-unused", "") # "" /\ "parser-grammar-unused-reason" \notin DOMAIN json
    THEN Failed("must have 'parser-grammar-unused-reason' specified when using 'parser-grammar-unused'")
    ELSE IF grammars["parser-grammar-unused"].err # None THEN Failed(grammars["parser-grammar-unused"].err)
    ELSE IF after # None THEN Failed(after)
    ELSE Built([name |-> name,
                longhands |-> get(json, "longhands", << >>),
                top_priority |-> get(json, "top-priority", FALSE),
                high_priority |-> get(json, "high-priority", FALSE),
                medium_priority |-> get(json, "medium-priority", FALSE),
                sink_priority |-> get(json, "sink-priority", FALSE),
                logical_property_group |->
                    IF "logical-property-group" \in DOMAIN json
                    THEN LogicalPropertyGroup_from_json(json["logical-property-group"]).res
                    ELSE NoLogicalPropertyGroup,
                parser_grammar |-> grammars["parser-grammar"].res,
                parser_grammar_unused |-> grammars["parser-grammar-unused"].res,
                parser_function |-> get(json, "parser-function", ""),
                skip_parser |-> get(json, "skip-parser", FALSE)])

\* StylePropertyCodeGenProperties.from_json
StylePropertyCodeGenProperties_from_json(name, json) ==
    StylePropertyCodeGenProperties_with(name, json,
                                        first_raised(codegen_checks_before_grammar(json), 1),
                                        grammars_of_keys(json),
                                        first_raised(codegen_checks_after_grammar(json), 1))

\* StylePropertyCodeGenProperties.is_logical
is_logical(codegen_properties) == codegen_properties.logical_property_group.logic = "logical"

VALID_ANIMATION_TYPES ==
    { "discrete", "by computed value", "repeatable list", "see prose", "not animatable",
      "not animatable (needs triage)", "not animatable (legacy)", "not animatable (internal)" }

\* StyleProperty.from_json after StylePropertyCodeGenProperties.from_json.
StyleProperty_with(json, codegen_properties) ==
    IF codegen_properties.err # None THEN codegen_properties
    ELSE IF "animation-type" \in DOMAIN json /\ json["animation-type"] \notin VALID_ANIMATION_TYPES
    THEN Failed("specified invalid animation type")
    ELSE IF /\ "animation-type" \notin DOMAIN json
            /\ ~(is_logical(codegen_properties.res) \/ codegen_properties.res.longhands # << >>)
    THEN Failed("must specify an 'animation-type'")
    ELSE IF /\ "initial" \notin DOMAIN json
            /\ ~(is_logical(codegen_properties.res) \/ codegen_properties.res.longhands # << >>)
    THEN Failed("must specify 'initial'")
    ELSE codegen_properties

\* StyleProperty.from_json of an entry without "values", "enable-if" and
\* "skip-codegen": the StyleProperty, as its codegen_properties, or the
\* exception raised.
StyleProperty_from_json(name, json) ==
    StyleProperty_with(json, StylePropertyCodeGenProperties_from_json(name, get(json, "codegen-properties", << >>)))

\* The names of a list of properties: the keys of properties_by_name.
names_of(properties) == { properties[i].name : i \in DOMAIN properties }

\* StyleProperty.perform_fixups_for_longhands: the lookup of each longhand
\* in all_by_name.
perform_fixups_for_longhands(self, properties) ==
    IF \E i \in DOMAIN self.longhands : self.longhands[i] \notin names_of(properties)
    THEN "KeyError" ELSE None

\* StyleProperty.perform_fixups_for_logical_property_groups, were the
\* property stored without a look at the slot.
perform_fixups_for_logical_property_groups_overwriting(self, groups) ==
    LET own == self.logical_property_group
        group == get(groups, own.name, << >>)
        slots == get(group, own.logic, << >>)
    IN IF own.name = None THEN [err |-> None, groups |-> groups]
       ELSE [err |-> None,
             groups |-> (own.name :> (("kind" :> own.kind)
                                      @@ (own.logic :> ((own.resolver :> self.name) @@ slots))
                                      @@ group))
                        @@ groups]

\* StyleProperty.perform_fixups_for_logical_property_groups, were the kind
\* of the group not compared with the kind of the property.
perform_fixups_for_logical_property_groups_of_any_kind(self, groups) ==
    LET own == self.logical_property_group
        group == get(groups, own.name, << >>)
        with_kind == (own.name :> (("kind" :> own.kind) @@ group)) @@ groups
        slots == get(group, own.logic, << >>)
    IN IF own.name = None THEN [err |-> None, groups |-> groups]
       ELSE IF own.resolver \in DOMAIN slots
       THEN [err |-> "has multiple properties of the resolver", groups |-> with_kind]
       ELSE [err |-> None,
             groups |-> (own.name :> (("kind" :> own.kind)
                                      @@ (own.logic :> ((own.resolver :> self.name) @@ slots))
                                      @@ group))
                        @@ groups]

\* StyleProperty.perform_fixups_for_logical_property_groups: the exception
\* raised and logical_property_groups as the call leaves it.
perform_fixups_for_logical_property_groups(self, groups) ==
    LET own == self.logical_property_group
        group == get(groups, own.name, << >>)
        existing_kind == get(group, "kind", None)
        with_kind == (own.name :> (("kind" :> own.kind) @@ group)) @@ groups
        slots == get(group, own.logic, << >>)
    IN IF own.name = None THEN [err |-> None, groups |-> groups]
       ELSE IF existing_kind # None /\ existing_kind # own.kind
       THEN [err |-> "has resolvers of different kinds", groups |-> (own.name :> group) @@ groups]
       ELSE IF own.resolver \in DOMAIN slots
       THEN [err |-> "has multiple properties of the resolver", groups |-> with_kind]
       ELSE [err |-> None,
             groups |-> (own.name :> (("kind" :> own.kind)
                                      @@ (own.logic :> ((own.resolver :> self.name) @@ slots))
                                      @@ group))
                        @@ groups]

\* ord() of '-' and of the lower-case letters
ord(c) ==
    IF c = "-" THEN 45
    ELSE 96 + (CHOOSE k \in 1..26 : SubSeq("abcdefghijklmnopqrstuvwxyz", k, k) = c)

\* a < b of two str
RECURSIVE str_lt(_, _)
str_lt(a, b) ==
    IF b = "" THEN FALSE
    ELSE IF a = "" THEN TRUE
    ELSE IF SubSeq(a, 1, 1) = SubSeq(b, 1, 1) THEN str_lt(SubSeq(a, 2, Len(a)), SubSeq(b, 2, Len(b)))
    ELSE ord(SubSeq(a, 1, 1)) < ord(SubSeq(b, 1, 1))

\* StyleProperties._sort_with_prefixed_properties_last
sort_with_prefixed_properties_last(a, b) ==
    LET a_starts_with_prefix == SubSeq(a.name, 1, 1) = "-"
        b_starts_with_prefix == SubSeq(b.name, 1, 1) = "-"
    IN IF a_starts_with_prefix /\ ~b_starts_with_prefix THEN 1
       ELSE IF ~a_starts_with_prefix /\ b_starts_with_prefix THEN 0 - 1
       ELSE IF str_lt(a.name, b.name) THEN 0 - 1
       ELSE IF str_lt(b.name, a.name) THEN 1
       ELSE 0

\* One step of the comparator: a to the back when it alone has the flag.
to_the_back(a_has, b_has, otherwise) ==
    IF a_has /\ ~b_has THEN 1 ELSE IF ~a_has /\ b_has THEN 0 - 1 ELSE otherwise

\* StyleProperties._sort_by_descending_priority_and_name
sort_by_descending_priority_and_name(a, b) ==
    to_the_back(a.longhands # << >>, b.longhands # << >>,
    \* a with top priority to the front is b with top priority to the back
    to_the_back(b.top_priority, a.top_priority,
    to_the_back(b.high_priority, a.high_priority,
    to_the_back(b.medium_priority, a.medium_priority,
    to_the_back(a.logical_property_group.logic = "logical", b.logical_property_group.logic = "logical",
    to_the_back(a.logical_property_group.logic = "physical", b.logical_property_group.logic = "physical",
    to_the_back(a.sink_priority, b.sink_priority,
    sort_with_prefixed_properties_last(a, b))))))))

\* One insertion of a stable sort by insertion: x goes right after the last
\* element it is not less than.
insert(acc, x) ==
    LET k == IF \E j \in DOMAIN acc : ~(sort_by_descending_priority_and_name(x, acc[j]) < 0)
             THEN CHOOSE j \in DOMAIN acc :
                     /\ ~(sort_by_descending_priority_and_name(x, acc[j]) < 0)
                     /\ \A m \in (j + 1)..Len(acc) : sort_by_descending_priority_and_name(x, acc[m]) < 0
             ELSE 0
    IN SubSeq(acc, 1, k) \o << x >> \o SubSeq(acc, k + 1, Len(acc))

\* sorted(list, key=functools.cmp_to_key(StyleProperties._sort_by_descending_priority_and_name)),
\* from element i on, `acc` being the elements before i sorted.
RECURSIVE sorted(_, _, _)
sorted(list, i, acc) ==
    IF i > Len(list) THEN acc ELSE sorted(list, i + 1, insert(acc, list[i]))

\* The validations of DescriptorCodeGenProperties.from_json, in the order
\* of the code, the exceptions of the two grammars among them.
descriptor_checks(codegen, grammars) ==
    << << get(codegen, "parser-grammar", "") # "" /\ "parser-function" \in DOMAIN codegen,
          "can't have both 'parser-grammar' and 'parser-function" >>,
       << get(codegen, "parser-grammar", "") # "" /\ "skip-parser" \in DOMAIN codegen,
          "can't have both 'parser-grammar' and 'skip-parser" >>,
       << get(codegen, "parser-grammar", "") # "" /\ get(codegen, "longhands", << >>) # << >>,
          "can't have both 'parser-grammar' and 'longhands" >>,
       << grammars["parser-grammar"].err # None, grammars["parser-grammar"].err >>,
       << get(codegen, "parser-grammar-unused", "") # "" /\ "parser-grammar-unused-reason" \notin DOMAIN codegen,
          "must have 'parser-grammar-unused-reason' specified when using 'parser-grammar-unused'" >>,
       << grammars["parser-grammar-unused"].err # None, grammars["parser-grammar-unused"].err >>,
       << get(codegen, "parser-grammar-unused-reason", "") # "" /\ "parser-grammar-unused" \notin DOMAIN codegen,
          "must have 'parser-grammar-unused' specified when using 'parser-grammar-unused-reason'" >>,
       << get(codegen, "parser-function", "") # "" /\ "parser-grammar-unused" \notin DOMAIN codegen,
          "must have 'parser-grammar-unused' specified when using 'parser-function'" >>,
       << get(codegen, "parser-function", "") # "" /\ "skip-parser" \in DOMAIN codegen,
          "can't have both 'parser-function' and 'skip-parser'" >>,
       << get(codegen, "parser-function", "") # "" /\ get(codegen, "longhands", << >>) # << >>,
          "can't have both 'parser-function' and 'longhands'" >> >>

\* DescriptorCodeGenProperties.__init__, which sets the priorities and the
\* logical property group to None, after the validations.
Descriptor_with(descriptor_set_name, name, codegen, grammars, raised) ==
    IF raised # None THEN Failed(raised)
    ELSE Built([name |-> name,
                descriptor_set_name |-> descriptor_set_name,
                longhands |-> get(codegen, "longhands", << >>),
                top_priority |-> FALSE, high_priority |-> FALSE,
                medium_priority |-> FALSE, sink_priority |-> FALSE,
                logical_property_group |-> NoLogicalPropertyGroup,
                parser_grammar |-> grammars["parser-grammar"].res,
                parser_grammar_unused |-> grammars["parser-grammar-unused"].res,
                parser_function |-> get(codegen, "parser-function", ""),
                skip_parser |-> get(codegen, "skip-parser", FALSE)])

\* The grammars of a descriptor, with the exceptions of its validations.
Descriptor_checked(descriptor_set_name, name, codegen, grammars) ==
    Descriptor_with(descriptor_set_name, name, codegen, grammars,
                    first_raised(descriptor_checks(codegen, grammars), 1))

\* Descriptor.from_json of an entry without "values", with
\* DescriptorCodeGenProperties.from_json.
Descriptor_from_json(descriptor_set_name, name, json) ==
    Descriptor_checked(descriptor_set_name, name, get(json, "codegen-properties", << >>),
                       grammars_of_keys(get(json, "codegen-properties", << >>)))

\* The descriptors of a descriptor set, from entry i of the JSON object on:
\* the list of the Descriptors, or the first exception.
RECURSIVE Descriptors_of_set(_, _, _, _)
Descriptors_next(name, json, i, acc, descriptor) ==
    IF descriptor.err # None THEN descriptor
    ELSE Descriptors_of_set(name, json, i + 1, Append(acc, descriptor.res))
Descriptors_of_set(name, json, i, acc) ==
    IF i > Len(json) THEN Built(acc)
    ELSE Descriptors_next(name, json, i, acc, Descriptor_from_json(name, json[i][1], json[i][2]))

\* DescriptorSet.__init__ with _perform_fixups, given the descriptors.
DescriptorSet(name, built) ==
    IF built.err # None THEN built
    ELSE IF \E i \in DOMAIN built.res : perform_fixups_for_longhands(built.res[i], built.res) # None
    THEN Failed("KeyError")
    ELSE Built([name |-> name, descriptors |-> built.res, all |-> sorted(built.res, 1, << >>)])

\* DescriptorSet.from_json: the set with its descriptors and their sorted
\* list `all`, or the exception raised.
DescriptorSet_from_json(name, json) == DescriptorSet(name, Descriptors_of_set(name, json, 1, << >>))

\* Descriptors.all: the chain of the `all` of the descriptor sets.
RECURSIVE Descriptors_all(_, _)
Descriptors_all(descriptor_sets, i) ==
    IF i > Len(descriptor_sets) THEN << >>
    ELSE descriptor_sets[i].all \o Descriptors_all(descriptor_sets, i + 1)

\* The loop of _compute_all_unique over Descriptors.all from element i on,
\* were the name set not looked at.
RECURSIVE append_every(_, _, _, _)
append_every(chained, i, result, name_set) ==
    IF i > Len(chained) THEN result
    ELSE append_every(chained, i + 1, Append(result, chained[i]), name_set \cup { chained[i].name })

\* The loop of _compute_all_unique over Descriptors.all from element i on.
RECURSIVE append_unique(_, _, _, _)
append_unique(chained, i, result, name_set) ==
    IF i > Len(chained) THEN result
    ELSE IF chained[i].name \in name_set THEN append_unique(chained, i + 1, result, name_set)
    ELSE append_unique(chained, i + 1, Append(result, chained[i]), name_set \cup { chained[i].name })

\* PropertiesAndDescriptors._compute_all_unique
compute_all_unique(style_properties_all, all_by_name, descriptor_sets) ==
    sorted(append_unique(Descriptors_all(descriptor_sets, 1), 1, style_properties_all, all_by_name),
           1, << >>)

(***************************************************************************)
(* The state of one run of BNFParser.parse.                                *)
(***************************************************************************)
VARIABLES
    pc,                 \* the operation of the grammar pipeline done last
    exception,          \* the exception that operation raised, None if it returned
    input,              \* the JSON read so far: rules, property, grammar, values
    rules,              \* SharedGrammarRules.rules: name and root_term of each rule
    terms,              \* the term objects
    root_term,          \* root_term of the property's parser_grammar, 0 without one
    values,             \* the Values of the property
    fixed,              \* the term tree Grammar.perform_fixups left when first applied
    consumer,           \* the class of the consumer PropertyConsumer.make returned
    term_generators     \* term_generators of the TermGeneratorMatchOneTerm of the root term

grammar_vars == << pc, exception, input, rules, terms, root_term, values, fixed, consumer,
                  term_generators >>

VARIABLES
    nodes,              \* the objects of the parse tree, nodes[1] = self.root
    state_stack,        \* self.state_stack
    multiplier_target,  \* self.multiplier_target
    annotation_target,  \* self.annotation_target
    status,             \* "parsing", "returned" or "raised"
    error,              \* the exception that left parse, if any
    loop_token,         \* `token` of the loop of parse: the last token read
    loop_state,         \* `state` of the loop of parse: its state name
    ntokens,            \* number of tokens the lexer has yielded
    combinators,        \* history of the run: for each node, the number of combinator
                        \* tokens process_combinator took for it
    juxtapositions      \* history of the run: for each node, the number of terms
                        \* started in it right after a term

parser_vars == << nodes, state_stack, multiplier_target, annotation_target,
                  status, error, loop_token, loop_state, ntokens, combinators,
                  juxtapositions >>

VARIABLES
    data,               \* the string BNFLexer was called with
    position,           \* `position` of BNFLexer
    yielded,            \* the token BNFLexer yielded last
    stream,             \* the tokens BNFLexer has yielded, in order
    lexer               \* where the generator is: "not started", "running" its loop,
                        \* suspended at a yield ("yielded"), "finished", or
                        \* "abandoned" by a parse that raised

lexer_vars == << data, position, yielded, stream, lexer >>

VARIABLES
    registry,                   \* the operation on the property registry done last
    registry_exception,         \* the exception that operation raised, None if it returned
    properties_json,            \* the "properties" and "descriptors" objects read
    properties,                 \* StyleProperties.properties
    fixups,                     \* the number of properties whose perform_fixups has run
    logical_property_groups,    \* StyleProperties.logical_property_groups
    all,                        \* StyleProperties._all
    descriptors,                \* the descriptors of Descriptors.descriptor_sets, set by set
    all_unique                  \* PropertiesAndDescriptors._all_unique

registry_vars == << registry, registry_exception, properties_json, properties, fixups,
                    logical_property_groups, all, descriptors, all_unique >>

VARIABLES
    written             \* the output files opened for writing, in the order of opening

VARIABLES
    options,            \* the options the GLibPort was made with, as it has them now
    port,               \* None before make_port, "constructed", or "ValueError"
    timeouts            \* what the calls of default_timeout_ms returned, in order

port_vars == << options, port, timeouts >>

\* The state outside the parser and the grammar of one property.
run_vars == << lexer_vars, registry_vars, written, port_vars >>

\* The parser object as a record.
Parser ==
    [nodes |-> nodes, state_stack |-> state_stack,
     multiplier_target |-> multiplier_target, annotation_target |-> annotation_target,
     status |-> status, error |-> error]

\* The parser after the call that gave q.  BNFParser objects are temporaries
\* of Grammar.from_string: when an exception leaves parse, the parser and
\* its tree are gone, and the exception is all that is left of the run.
SetParser(q) ==
    \E r \in { IF q.status = "raised"
                THEN [q EXCEPT !.nodes = << >>, !.state_stack = << >>,
                               !.multiplier_target = NoneRef, !.annotation_target = NoneRef]
                ELSE q } :
       /\ nodes' = r.nodes
       /\ state_stack' = r.state_stack
       /\ multiplier_target' = r.multiplier_target
       /\ annotation_target' = r.annotation_target
       /\ status' = r.status
       /\ error' = r.error

InitParser ==
    /\ nodes = BNFParser.nodes
    /\ state_stack = BNFParser.state_stack
    /\ multiplier_target = BNFParser.multiplier_target
    /\ annotation_target = BNFParser.annotation_target
    /\ status = BNFParser.status
    /\ error = BNFParser.error
    /\ loop_token = NoToken
    /\ loop_state = None
    /\ ntokens = 0
    /\ combinators = [i \in DOMAIN BNFParser.nodes |-> 0]
    /\ juxtapositions = [i \in DOMAIN BNFParser.nodes |-> 0]

\* The states whose thunks call process_combinator.
CombinatorStates ==
    {"UNKNOWN_GROUPING_SEEN_TERM", "KNOWN_ORDERED_GROUPING",
     "KNOWN_COMBINATOR_GROUPING_COMBINATOR_OR_CLOSE_REQUIRED"}

\* The history after the iteration for `token` in state `name`, for the
\* nodes it left: a combinator token process_combinator took is counted for
\* the node of the top frame.
counted(token, name) ==
    [i \in DOMAIN nodes' |->
        (IF i \in DOMAIN combinators THEN combinators[i] ELSE 0)
        + (IF /\ token.name \in DOMAIN COMBINATOR_FOR_TOKEN
              /\ name \in CombinatorStates
              /\ i = top(Parser).node
           THEN 1 ELSE 0)]

\* The states of a grouping in which the token before was the end of a term.
AfterTermStates ==
    {"UNKNOWN_GROUPING_SEEN_TERM", "KNOWN_ORDERED_GROUPING",
     "KNOWN_COMBINATOR_GROUPING_COMBINATOR_OR_CLOSE_REQUIRED"}

\* The history after the iteration for `token` in state `name`, for the
\* nodes it left: a token that starts a term right after a term is counted
\* for the node of the top frame.
juxtaposed(token, name) ==
    [i \in DOMAIN nodes' |->
        (IF i \in DOMAIN juxtapositions THEN juxtapositions[i] ELSE 0)
        + (IF /\ token.name \in TermStart
              /\ name \in AfterTermStates
              /\ i = top(Parser).node
           THEN 1 ELSE 0)]

\* One iteration of the loop of parse in which the top frame is in state
\* `name`: the lexer yields a token, an ILLEGAL token raises, every other
\* token goes to the thunk of the state.  The EOF token is the last token
\* the lexer yields.
Step(name) ==
    /\ status = "parsing"
    /\ loop_token.name # BNF_EOF_TOKEN
    /\ ntokens < MaxTokens
    /\ top(Parser).state = name
    /\ \E token \in Tokens :
        \E q \in { parse_token(Parser, token) } :
           /\ Cardinality({ i \in DOMAIN q.nodes : q.nodes[i].type \in TermNodeTypes }) <= MaxNodes + 1
           /\ Cardinality({ i \in DOMAIN q.nodes : q.nodes[i].type \notin TermNodeTypes }) <= MaxParts
           /\ \A i \in DOMAIN nodes :
                (q.nodes[i].type = "BNFLiteralNode" /\ nodes[i].name # None
                 /\ q.nodes[i].name # nodes[i].name) => Len(q.nodes[i].name) <= MaxLiteralLen
           /\ SetParser(q)
           /\ loop_token' = token
           /\ loop_state' = name
           /\ ntokens' = ntokens + 1
           /\ combinators' = counted(token, name)
           /\ juxtapositions' = juxtaposed(token, name)
           /\ UNCHANGED << grammar_vars, run_vars >>

Do_UNKNOWN_GROUPING_INITIAL == Step("UNKNOWN_GROUPING_INITIAL")
Do_UNKNOWN_GROUPING_SEEN_TERM == Step("UNKNOWN_GROUPING_SEEN_TERM")
Do_KNOWN_ORDERED_GROUPING == Step("KNOWN_ORDERED_GROUPING")
Do_KNOWN_COMBINATOR_GROUPING_TERM_REQUIRED == Step("KNOWN_COMBINATOR_GROUPING_TERM_REQUIRED")
Do_KNOWN_COMBINATOR_GROUPING_COMBINATOR_OR_CLOSE_REQUIRED == Step("KNOWN_COMBINATOR_GROUPING_COMBINATOR_OR_CLOSE_REQUIRED")
Do_INTERNAL_REFERENCE_INITIAL == Step("INTERNAL_REFERENCE_INITIAL")
Do_INTERNAL_REFERENCE_SEEN_ID == Step("INTERNAL_REFERENCE_SEEN_ID")
Do_REFERENCE_INITIAL == Step("REFERENCE_INITIAL")
Do_REFERENCE_SEEN_QUOTE_OPEN == Step("REFERENCE_SEEN_QUOTE_OPEN")
Do_REFERENCE_SEEN_QUOTE_AND_ID == Step("REFERENCE_SEEN_QUOTE_AND_ID")
Do_REFERENCE_SEEN_FUNCTION_OPEN == Step("REFERENCE_SEEN_FUNCTION_OPEN")
Do_REFERENCE_SEEN_ID_OR_FUNCTION == Step("REFERENCE_SEEN_ID_OR_FUNCTION")
Do_REFERENCE_STRING_ATTRIBUTE_INITIAL == Step("REFERENCE_STRING_ATTRIBUTE_INITIAL")
Do_REFERENCE_STRING_ATTRIBUTE_SEEN_EQUAL == Step("REFERENCE_STRING_ATTRIBUTE_SEEN_EQUAL")
Do_REFERENCE_STRING_ATTRIBUTE_SEEN_VALUE == Step("REFERENCE_STRING_ATTRIBUTE_SEEN_VALUE")
Do_REFERENCE_RANGE_ATTRIBUTE_INITIAL == Step("REFERENCE_RANGE_ATTRIBUTE_INITIAL")
Do_REFERENCE_RANGE_ATTRIBUTE_SEEN_MIN == Step("REFERENCE_RANGE_ATTRIBUTE_SEEN_MIN")
Do_REFERENCE_RANGE_ATTRIBUTE_SEEN_MIN_AND_COMMA == Step("REFERENCE_RANGE_ATTRIBUTE_SEEN_MIN_AND_COMMA")
Do_REFERENCE_RANGE_ATTRIBUTE_SEEN_MAX == Step("REFERENCE_RANGE_ATTRIBUTE_SEEN_MAX")
Do_REPETITION_MODIFIER_INITIAL == Step("REPETITION_MODIFIER_INITIAL")
Do_REPETITION_MODIFIER_SEEN_MIN == Step("REPETITION_MODIFIER_SEEN_MIN")
Do_REPETITION_MODIFIER_SEEN_MIN_AND_COMMA == Step("REPETITION_MODIFIER_SEEN_MIN_AND_COMMA")
Do_REPETITION_MODIFIER_SEEN_MAX == Step("REPETITION_MODIFIER_SEEN_MAX")
Do_QUOTED_LITERAL_INITIAL == Step("QUOTED_LITERAL_INITIAL")
Do_QUOTED_LITERAL_SEEN_ID == Step("QUOTED_LITERAL_SEEN_ID")
Do_ANNOTATION_INITIAL == Step("ANNOTATION_INITIAL")
Do_ANNOTATION_SEEN_ID == Step("ANNOTATION_SEEN_ID")
Do_ANNOTATION_SEEN_EQUAL_OR_COMMA == Step("ANNOTATION_SEEN_EQUAL_OR_COMMA")
Do_ANNOTATION_SEEN_VALUE == Step("ANNOTATION_SEEN_VALUE")

\* The end of parse, after the loop: the lexer is exhausted once it has
\* yielded EOF.
ParseReturn ==
    /\ status = "parsing"
    /\ loop_token.name = BNF_EOF_TOKEN
    /\ SetParser(parse_end(Parser, loop_state))
    /\ combinators' = counted(NoToken, loop_state)
    /\ juxtapositions' = juxtaposed(NoToken, loop_state)
    /\ UNCHANGED << loop_token, loop_state, ntokens >>
    /\ UNCHANGED << grammar_vars, run_vars >>

ParserNext ==
    \/ Do_UNKNOWN_GROUPING_INITIAL
    \/ Do_UNKNOWN_GROUPING_SEEN_TERM
    \/ Do_KNOWN_ORDERED_GROUPING
    \/ Do_KNOWN_COMBINATOR_GROUPING_TERM_REQUIRED
    \/ Do_KNOWN_COMBINATOR_GROUPING_COMBINATOR_OR_CLOSE_REQUIRED
    \/ Do_INTERNAL_REFERENCE_INITIAL
    \/ Do_INTERNAL_REFERENCE_SEEN_ID
    \/ Do_REFERENCE_INITIAL
    \/ Do_REFERENCE_SEEN_QUOTE_OPEN
    \/ Do_REFERENCE_SEEN_QUOTE_AND_ID
    \/ Do_REFERENCE_SEEN_FUNCTION_OPEN
    \/ Do_REFERENCE_SEEN_ID_OR_FUNCTION
    \/ Do_REFERENCE_STRING_ATTRIBUTE_INITIAL
    \/ Do_REFERENCE_STRING_ATTRIBUTE_SEEN_EQUAL
    \/ Do_REFERENCE_STRING_ATTRIBUTE_SEEN_VALUE
    \/ Do_REFERENCE_RANGE_ATTRIBUTE_INITIAL
    \/ Do_REFERENCE_RANGE_ATTRIBUTE_SEEN_MIN
    \/ Do_REFERENCE_RANGE_ATTRIBUTE_SEEN_MIN_AND_COMMA
    \/ Do_REFERENCE_RANGE_ATTRIBUTE_SEEN_MAX
    \/ Do_REPETITION_MODIFIER_INITIAL
    \/ Do_REPETITION_MODIFIER_SEEN_MIN
    \/ Do_REPETITION_MODIFIER_SEEN_MIN_AND_COMMA
    \/ Do_REPETITION_MODIFIER_SEEN_MAX
    \/ Do_QUOTED_LITERAL_INITIAL
    \/ Do_QUOTED_LITERAL_SEEN_ID
    \/ Do_ANNOTATION_INITIAL
    \/ Do_ANNOTATION_SEEN_ID
    \/ Do_ANNOTATION_SEEN_EQUAL_OR_COMMA
    \/ Do_ANNOTATION_SEEN_VALUE
    \/ ParseReturn

(***************************************************************************)
(* The grammar of one property, from the JSON to its consumer:             *)
(* SharedGrammarRules.from_json, StylePropertyCodeGenProperties.from_json, *)
(* StyleProperty.from_json, and the first two generators of main, of which *)
(* the second calls PropertyConsumer.make.                                 *)
(***************************************************************************)
\* Token sequences of grammar texts.
Fixed(name) == BNFTokenInfo(name, (CHOOSE t \in BNFToken : t[1] = name)[2])
ID(value) == BNFTokenInfo("ID", value)
INT(value) == BNFTokenInfo("INT", value)

keyword(x) == << ID(x) >>
reference(x) == << Fixed("LT"), ID(x), Fixed("GT") >>
ranged_reference(x) ==
    << Fixed("LT"), ID(x), Fixed("LSQUARE"), INT("2"), Fixed("COMMA"), INT("4"), Fixed("RSQUARE"), Fixed("GT") >>
internal_reference(x) == << Fixed("LTLT"), ID(x), Fixed("GTGT") >>
function(parameters) == << BNFTokenInfo("FUNC", "f(") >> \o parameters \o << Fixed("RPAREN") >>
grouping(members) == << Fixed("LSQUARE") >> \o members \o << Fixed("RSQUARE") >>
annotation(name, value) ==
    << Fixed("ATPAREN"), ID(name), Fixed("EQUAL"), ID(value), Fixed("RPAREN") >>
flag(name) == << Fixed("ATPAREN"), ID(name), Fixed("RPAREN") >>
repetition(min, comma, max) ==
    << Fixed("LBRACE"), INT(min) >> \o comma \o max \o << Fixed("RBRACE") >>

\* The combinators: juxtaposition, '|', '||' and '&&'.
InputCombinators == { << >>, << Fixed("OR") >>, << Fixed("OROR") >>, << Fixed("ANDAND") >> }

\* The multiplier forms, none included, and some with an annotation.
InputMultipliers ==
    LET counts == { repetition("2", << >>, << >>), repetition("2", << Fixed("COMMA") >>, << >>),
                    repetition("2", << Fixed("COMMA") >>, << INT("4") >>) }
    IN { << >>, << Fixed("QMARK") >>, << Fixed("STAR") >>, << Fixed("PLUS") >>, << Fixed("HASH") >> }
       \cup counts
       \cup { << Fixed("HASH") >> \o c : c \in counts }
       \cup { << Fixed("QMARK") >> \o annotation("settings-flag", "x"),
              << Fixed("HASH") >> \o flag("no-single-item-opt"),
              << Fixed("STAR") >> \o flag("settings-flag") }

\* Terms: keywords, references to rules, to builtins and to nothing known,
\* the values reference, a function, groupings and a literal.
InputTerms ==
    { keyword("a"), keyword("b"),
      reference("r"), reference("s"), reference("u"), reference("number"),
      ranged_reference("number"), ranged_reference("string"),
      internal_reference("values"), internal_reference("u"),
      keyword("a") \o annotation("aliased-to", "b"),
      reference("r") \o annotation("settings-flag", "x"),
      function(keyword("a")),
      function(reference("r")),
      grouping(keyword("a") \o << Fixed("OR") >> \o keyword("b")),
      grouping(keyword("a") \o << Fixed("OR") >> \o keyword("b")) \o annotation("settings-flag", "x"),
      grouping(keyword("a") \o << Fixed("OR") >> \o internal_reference("values")),
      grouping(keyword("a")),
      grouping(keyword("a")) \o annotation("settings-flag", "x"),
      << Fixed("COMMA") >> }

\* auto | none | <length [0,inf]>
InputAutoNoneLength ==
    keyword("auto") \o << Fixed("OR") >> \o keyword("none") \o << Fixed("OR") >>
    \o << Fixed("LT"), ID("length"), Fixed("LSQUARE"), INT("0"), Fixed("COMMA"), ID("inf"),
          Fixed("RSQUARE"), Fixed("GT") >>

\* The grammar texts: a term with a multiplier, two terms with a
\* combinator, an optional term as an alternative, an unfinished text, and
\* a grammar of three alternatives.
InputGrammars ==
    { t \o m : t \in InputTerms, m \in InputMultipliers }
    \cup { t \o c \o u : t \in InputTerms, c \in InputCombinators, u \in InputTerms }
    \cup { t \o << Fixed("QMARK"), Fixed("OR") >> \o keyword("b") : t \in InputTerms }
    \cup { keyword("a") \o << Fixed("OR") >> }
    \cup { InputAutoNoneLength }

\* The shared rule tables: none; a rule that refers to a later one; a rule
\* that is a reference to an earlier one; a rule that refers to itself; a
\* rule that is a grouping with a settings-flag; a rule with the values
\* reference.
Rule(name, grammar) == [name |-> name, grammar |-> grammar]
InputRules ==
    { << >>,
      << Rule("<r>", keyword("a") \o << Fixed("OR") >> \o reference("s")),
         Rule("<s>", keyword("b") \o << Fixed("OR") >> \o reference("number")) >>,
      << Rule("<s>", keyword("a") \o keyword("b")),
         Rule("<r>", reference("s")) >>,
      << Rule("<r>", keyword("a") \o << Fixed("OR") >> \o reference("r")) >>,
      << Rule("<r>", grouping(keyword("a") \o << Fixed("OR") >> \o keyword("b"))
                     \o annotation("settings-flag", "x")) >>,
      << Rule("<r>", keyword("a") \o << Fixed("OR") >> \o internal_reference("values")) >> }

\* The codegen properties PropertyConsumer.make reads.  A parser-grammar
\* excludes skip-parser and parser-function, and these exclude each other.
Property(longhands, skip_parser, parser_function, parser_grammar) ==
    [longhands |-> longhands, skip_parser |-> skip_parser,
     parser_function |-> parser_function, parser_grammar |-> parser_grammar]
NoProperty == Property(FALSE, FALSE, FALSE, FALSE)
InputPropertiesWithGrammar == { Property(l, FALSE, FALSE, TRUE) : l \in BOOLEAN }
InputPropertiesWithoutGrammar ==
    { Property(l, TRUE, FALSE, FALSE) : l \in BOOLEAN }
    \cup { Property(l, FALSE, TRUE, FALSE) : l \in BOOLEAN }
    \cup { Property(l, FALSE, FALSE, FALSE) : l \in BOOLEAN }

\* "values" arrays.
ValueJson(value, value_status) == [value |-> value, status |-> value_status]
InputValues ==
    { << >>,
      << ValueJson("a", None) >>,
      << ValueJson("a", None), ValueJson("b", None) >>,
      << ValueJson("b", None), ValueJson("a", None) >>,
      << ValueJson("a", None), ValueJson("b", "removed") >> }

\* A term tree by structure, without the identities of its terms.
RECURSIVE Shape(_, _)
Shape(h, t) == [h[t] EXCEPT !.subterms = [i \in DOMAIN h[t].subterms |-> Shape(h, h[t].subterms[i])]]

\* No term tree yet.
NoShape == [type |-> None]

NoInput == [rules |-> None, grammar |-> None, property |-> NoProperty, values |-> None]

InitGrammar ==
    /\ pc = "start"
    /\ exception = None
    /\ input = NoInput
    /\ rules = << >>
    /\ terms = << >>
    /\ root_term = 0
    /\ values = << >>
    /\ fixed = NoShape
    /\ consumer = None
    /\ term_generators = << >>

\* SharedGrammarRules.from_json
LoadSharedGrammarRules ==
    /\ pc = "start"
    /\ \E json \in InputRules :
        \E r \in { SharedGrammarRules_from_json(json) } :
           /\ pc' = "rules"
           /\ input' = [input EXCEPT !.rules = json]
           /\ exception' = r.err
           /\ terms' = IF r.err = None THEN r.terms ELSE terms
           /\ rules' = IF r.err = None THEN r.res ELSE rules
    /\ UNCHANGED << root_term, values, fixed, consumer, term_generators, parser_vars, run_vars >>

\* StylePropertyCodeGenProperties.from_json of a property with a
\* "parser-grammar": Grammar.from_string.
ParseGrammar ==
    /\ pc = "rules" /\ exception = None
    /\ \E property \in InputPropertiesWithGrammar, tokens \in InputGrammars :
        \E p \in { parse(tokens) } :
          \E r \in { root_from_node(terms, p) } :
             /\ SetParser(p)
             /\ pc' = "parsed"
             /\ input' = [input EXCEPT !.property = property, !.grammar = tokens]
             /\ exception' = r.err
             /\ terms' = IF r.err = None THEN r.terms ELSE terms
             /\ root_term' = r.res
    /\ UNCHANGED << rules, values, fixed, consumer, term_generators, loop_token, loop_state, ntokens, combinators,
                    juxtapositions,
                    run_vars >>

\* StylePropertyCodeGenProperties.from_json of a property without a
\* "parser-grammar".
NoGrammar ==
    /\ pc = "rules" /\ exception = None
    /\ \E property \in InputPropertiesWithoutGrammar :
          input' = [input EXCEPT !.property = property]
    /\ pc' = "fixed"
    /\ UNCHANGED << exception, rules, terms, root_term, values, fixed, consumer, term_generators, parser_vars, run_vars >>

\* Grammar.perform_fixups, applied by StylePropertyCodeGenProperties.from_json
\* to the grammar it parsed, and applied once more to the grammar it left.
FixupGrammar(from, to) ==
    /\ pc = from /\ exception = None
    /\ input.property.parser_grammar
    /\ \E r \in { perform_fixups(terms, root_term, rules, MaxDepth) } :
          /\ pc' = to
          /\ exception' = r.err
          /\ terms' = IF r.err = None THEN r.terms ELSE terms
          /\ root_term' = IF r.err = None THEN r.res ELSE root_term
          /\ fixed' = IF r.err = None /\ fixed = NoShape THEN Shape(r.terms, r.res) ELSE fixed
    /\ UNCHANGED << input, rules, values, consumer, term_generators, parser_vars, run_vars >>

PerformFixups == FixupGrammar("parsed", "fixed")
PerformFixupsAgain == FixupGrammar("fixed", "fixed again")

\* StyleProperty.from_json of a property with a "values" array, up to
\* perform_fixups_for_values_references.
ReadValues ==
    /\ pc = "fixed" /\ exception = None
    /\ \E json \in InputValues :
        \E v \in { Values_from_json(terms, json, 1, << >>) } :
          \E r \in { IF input.property = NoProperty
                     THEN Raised(terms, "must specify a 'parser-grammar', 'skip-parser', 'parser-function' or 'longhands'")
                     ELSE IF input.property.parser_grammar
                     THEN perform_fixups_for_values_references(v.terms, root_term, v.res)
                     ELSE Returned(v.terms, root_term) } :
             /\ input' = [input EXCEPT !.values = json]
             /\ exception' = r.err
             /\ terms' = IF r.err = None THEN r.terms ELSE terms
             /\ root_term' = IF r.err = None THEN r.res ELSE root_term
             /\ values' = IF r.err = None THEN v.res ELSE values
    /\ pc' = "values fixed"
    /\ UNCHANGED << rules, fixed, consumer, term_generators, parser_vars, run_vars >>

\* StyleProperty.from_json: Grammar.check_against_values of a property with
\* a parser-grammar.
CheckAgainstValues ==
    /\ pc = "values fixed" /\ exception = None
    /\ input.property.parser_grammar
    /\ pc' = "checked"
    /\ exception' = check_against_values(terms, root_term, values)
    /\ UNCHANGED << input, rules, terms, root_term, values, fixed, consumer, term_generators, parser_vars, run_vars >>

\* main, once parse_properties_and_descriptors returned: the first generator,
\* GenerateCSSPropertyNames(generation_context).generate(), run without a
\* gperf executable.  It opens and writes its two files.
GenerateCSSPropertyNames ==
    /\ exception = None
    /\ \/ pc = "fixed"
       \/ pc = "checked"
       \/ pc = "values fixed" /\ ~input.property.parser_grammar
    /\ pc' = "names generated"
    /\ written' = written \o << "CSSPropertyNames.h", "CSSPropertyNames.gperf" >>
    /\ UNCHANGED << exception, input, rules, terms, root_term, values, fixed, consumer, term_generators,
                    parser_vars, lexer_vars, registry_vars, port_vars >>

\* GenerateCSSPropertyParsing.__init__: PropertyConsumer.make of the
\* property StyleProperty.from_json returned.
MakeConsumer ==
    /\ exception = None
    /\ pc = "names generated"
    /\ \E m \in { make(terms, input.property, root_term) } :
          /\ consumer' = m.consumer
          /\ term_generators' = m.term_generators
          /\ exception' = m.err
    /\ pc' = "made"
    /\ UNCHANGED << input, rules, terms, root_term, values, fixed, parser_vars, run_vars >>

\* GenerateCSSPropertyParsing.generate: it opens and writes its header, then
\* opens its implementation file, in which the shorthand switch raises for
\* a shorthand with neither a parser-function nor a shorthand pattern that
\* does not skip the parser.  The generators main runs after this one are
\* not part of the model.
GenerateCSSPropertyParsing ==
    /\ exception = None
    /\ pc = "made"
    /\ pc' = "parsing generated"
    /\ written' = written \o << "CSSPropertyParsing.h", "CSSPropertyParsing.cpp" >>
    /\ exception' = IF /\ input.property.longhands
                       /\ ~input.property.skip_parser
                       /\ ~input.property.parser_function
                    THEN "Shorthand property has unknown parsing method"
                    ELSE None
    /\ UNCHANGED << input, rules, terms, root_term, values, fixed, consumer, term_generators,
                    parser_vars, lexer_vars, registry_vars, port_vars >>

GrammarNext ==
    \/ LoadSharedGrammarRules
    \/ ParseGrammar
    \/ NoGrammar
    \/ PerformFixups
    \/ PerformFixupsAgain
    \/ ReadValues
    \/ CheckAgainstValues
    \/ GenerateCSSPropertyNames
    \/ MakeConsumer
    \/ GenerateCSSPropertyParsing

(***************************************************************************)
(* BNFLexer as a generator, and the loop of BNFParser.parse over it.       *)
(***************************************************************************)
\* Length of the strings of which the model takes every one.
MaxDataLen == 4

\* One character of each kind the patterns tell apart: a letter, a digit,
\* the sign, the point, an opening parenthesis, '<' and '|' (each a token
\* alone and doubled), a blank, the quote, and a character of no pattern.
LexerAlphabet == {"a", "2", "-", ".", "(", "<", "|", " ", "'", "$"}

RECURSIVE StringsOfLen(_)
StringsOfLen(n) ==
    IF n = 0 THEN {""} ELSE { s \o c : s \in StringsOfLen(n - 1), c \in LexerAlphabet }
InputStrings == UNION { StringsOfLen(n) : n \in 0..MaxDataLen }

\* Grammar texts with annotations: a term, a multiplier, an annotation and
\* what follows it.
AnnotatedTerms == {"a", "<a>", "[a]", "[a b]", "[a|b]", "[a&&b]", "[a||b]", "f(a)", "','"}
AnnotatedMultipliers == {"", "?", "*", "+", "#", "{2}", "{2,}", "{2,4}", "#{2,4}"}
AnnotationTexts ==
    {"@(settings-flag=x)", "@(no-single-item-opt)", "@(type=x)", "@(default=previous)",
     "@(preserve-order)", "@(aliased-to=b)", "@(bogus)", "@(settings-flag=x type=y)",
     "@(type=y bogus)"}
AnnotationFollowers == {"", "@(settings-flag=x)", "{2}@(settings-flag=x)", "{2}", "$"}
InputAnnotated ==
    { t \o m \o a \o f : t \in AnnotatedTerms, m \in AnnotatedMultipliers,
                         a \in AnnotationTexts, f \in AnnotationFollowers }

InitLexer ==
    /\ data = ""
    /\ position = 0
    /\ yielded = NoToken
    /\ stream = << >>
    /\ lexer = "not started"

\* BNFLexer(data): the generator is created and runs up to its loop.
BNFLexerCall(inputs) ==
    /\ lexer = "not started"
    /\ \E d \in inputs : data' = d
    /\ position' = 0
    /\ lexer' = "running"
    /\ UNCHANGED << yielded, stream, parser_vars, grammar_vars, registry_vars, written, port_vars >>

\* `yield token`
yield(token) ==
    /\ yielded' = token
    /\ stream' = Append(stream, token)
    /\ lexer' = "yielded"

\* An iteration of the while loop in which a pattern other than WHITESPACE
\* matches.
LexerToken ==
    /\ lexer = "running" /\ position < Len(data)
    /\ \E token_id \in { first_match(data, position) } :
          /\ token_id \notin {None, "WHITESPACE"}
          /\ position' = match(token_id, data, position)
          /\ yield(BNFTokenInfo(token_id, SubSeq(data, position + 1, position')))
    /\ UNCHANGED << data, parser_vars, grammar_vars, registry_vars, written, port_vars >>

\* An iteration in which WHITESPACE matches.
LexerWhitespace ==
    /\ lexer = "running" /\ position < Len(data)
    /\ first_match(data, position) = "WHITESPACE"
    /\ position' = match("WHITESPACE", data, position)
    /\ UNCHANGED << data, yielded, stream, lexer, parser_vars, grammar_vars, registry_vars, written, port_vars >>

\* An iteration in which no pattern matches, were the character dropped.
LexerIllegal_dropping ==
    /\ lexer = "running" /\ position < Len(data)
    /\ first_match(data, position) = None
    /\ position' = position + 1
    /\ UNCHANGED << data, yielded, stream, lexer, parser_vars, grammar_vars, registry_vars, written, port_vars >>

\* An iteration in which no pattern matches.
LexerIllegal ==
    /\ lexer = "running" /\ position < Len(data)
    /\ first_match(data, position) = None
    /\ yield(BNFTokenInfo(BNF_ILLEGAL_TOKEN, CharAt(data, position)))
    /\ position' = position + 1
    /\ UNCHANGED << data, parser_vars, grammar_vars, registry_vars, written, port_vars >>

\* After the while loop.
LexerEOF ==
    /\ lexer = "running" /\ position >= Len(data)
    /\ yield(EofToken)
    /\ UNCHANGED << data, position, parser_vars, grammar_vars, registry_vars, written, port_vars >>

\* The generator is resumed by a consumer that takes every token, as
\* list(BNFLexer(data)) does: it goes on with its loop, or returns when it
\* was suspended at the last yield.
LexerResume ==
    /\ lexer = "yielded"
    /\ lexer' = IF yielded.name = BNF_EOF_TOKEN THEN "finished" ELSE "running"
    /\ UNCHANGED << data, position, yielded, stream, parser_vars, grammar_vars, registry_vars, written, port_vars >>

Lex == BNFLexerCall(InputStrings)

LexerNext ==
    \/ Lex
    \/ LexerToken
    \/ LexerWhitespace
    \/ LexerIllegal
    \/ LexerEOF
    \/ LexerResume

\* BNFParser.parse up to the first token of its loop.
Parse == BNFLexerCall(InputStrings \cup InputAnnotated)

\* The body of the loop of parse for the token the lexer yielded, then the
\* resumption of the lexer, which an exception leaving parse abandons.
ParseToken ==
    /\ lexer = "yielded" /\ status = "parsing"
    /\ \E q \in { parse_token(Parser, yielded) } :
          /\ SetParser(q)
          /\ lexer' = IF q.status = "raised" THEN "abandoned"
                      ELSE IF yielded.name = BNF_EOF_TOKEN THEN "finished"
                      ELSE "running"
    /\ loop_token' = yielded
    /\ loop_state' = top(Parser).state
    /\ ntokens' = ntokens + 1
    /\ combinators' = counted(yielded, top(Parser).state)
    /\ juxtapositions' = juxtaposed(yielded, top(Parser).state)
    /\ UNCHANGED << data, position, yielded, stream, grammar_vars, registry_vars, written, port_vars >>

ParseNext ==
    \/ Parse
    \/ LexerToken
    \/ LexerWhitespace
    \/ LexerIllegal
    \/ LexerEOF
    \/ ParseToken
    \/ ParseReturn

(***************************************************************************)
(* ParsingContext.parse_properties_and_descriptors, step by step:          *)
(* StyleProperty.from_json of each entry of "properties",                  *)
(* StyleProperties.__init__ with the fixups of each property and the       *)
(* sorted list, DescriptorSet.from_json of each entry of "descriptors",    *)
(* and PropertiesAndDescriptors.all_unique.                                *)
(***************************************************************************)

MaxProperties == 3

\* An entry of "properties" with these codegen-properties.
Entry(codegen) ==
    ("codegen-properties" :> codegen) @@ ("animation-type" :> "discrete") @@ ("initial" :> "a")
Group(resolver) == "logical-property-group" :> [name |-> "g", resolver |-> resolver]
TopPriority == ("top-priority" :> TRUE) @@ ("top-priority-reason" :> "r")
SkipParser == "skip-parser" :> TRUE

\* The entries the "properties" objects of the model are made of: plain
\* ones, one of them prefixed and one with a grammar; one of each priority;
\* a shorthand; the members of a logical property group, two of them for
\* the same resolver, one of another kind, two with a priority; entries
\* with a priority that sink; and entries from_json rejects.
InputEntries ==
    { << "b", Entry(SkipParser) >>,
      << "a-b", Entry("parser-grammar" :> "a | b") >>,
      << "-a", Entry(SkipParser) >>,
      << "c", Entry(SkipParser @@ ("sink-priority" :> TRUE)) >>,
      << "t", Entry(SkipParser @@ TopPriority) >>,
      << "h", Entry(SkipParser @@ ("high-priority" :> TRUE)) >>,
      << "m", Entry(SkipParser @@ ("medium-priority" :> TRUE)) >>,
      << "s", "codegen-properties" :> ("longhands" :> << "b" >>) >>,
      << "x", Entry(SkipParser @@ Group("horizontal")) >>,
      << "l", Entry(SkipParser @@ Group("inline")) >>,
      << "d", Entry(SkipParser @@ Group("inline")) >>,
      << "e", Entry(SkipParser @@ Group("block-start")) >>,
      << "at", Entry(SkipParser @@ TopPriority @@ Group("block")) >>,
      << "ah", Entry(SkipParser @@ ("high-priority" :> TRUE) @@ Group("vertical")) >>,
      << "ms", Entry(SkipParser @@ ("medium-priority" :> TRUE) @@ ("sink-priority" :> TRUE)) >>,
      << "ts", Entry(SkipParser @@ TopPriority @@ ("sink-priority" :> TRUE)) >>,
      << "z", Entry(SkipParser @@ ("top-priority" :> TRUE)) >>,
      << "ss", "codegen-properties" :> (("longhands" :> << "b" >>) @@ Group("inline")) >>,
      << "tt", Entry(SkipParser @@ Group("diagonal")) >>,
      << "mm", "codegen-properties" :> SkipParser >> }

\* The lists of up to n entries of different names.
RECURSIVE ListsOfEntries(_)
ListsOfEntries(n) ==
    IF n = 0 THEN { << >> }
    ELSE LET shorter == ListsOfEntries(n - 1)
         IN shorter \cup { Append(list, entry) :
                             list \in { l \in shorter : Len(l) = n - 1 }, entry \in InputEntries }

\* A "properties" object is the list of its entries, in the order of the file.
DifferentNames(list) == \A i, j \in DOMAIN list : i # j => list[i][1] # list[j][1]

\* The values a parser key is given: none, one that is not truthy, and one
\* that is.
InputParserKeys ==
    { g @@ f @@ s @@ u :
        g \in { << >>, "parser-grammar" :> "", "parser-grammar" :> "a" },
        f \in { << >>, "parser-function" :> "", "parser-function" :> "f" },
        s \in { << >>, "skip-parser" :> FALSE, "skip-parser" :> TRUE },
        u \in { << >>, ("parser-grammar-unused" :> "a") @@ ("parser-grammar-unused-reason" :> "r") } }

InputProperties ==
    { list \in ListsOfEntries(MaxProperties) : DifferentNames(list) }
    \cup { << << "p", Entry(keys) >> >> : keys \in InputParserKeys }

\* An entry of a descriptor set.
Descriptor(codegen) == "codegen-properties" :> codegen

\* The "descriptors" objects: none; two sets that share a name with each
\* other and names with the properties, one descriptor a shorthand; and a
\* set from_json rejects.
InputDescriptors ==
    { << >>,
      << << "@font-face", << << "z", Descriptor(SkipParser) >>,
                             << "b", Descriptor("parser-grammar" :> "a") >>,
                             << "-a", Descriptor(SkipParser) >> >> >>,
         << "@counter-style", << << "t", Descriptor(SkipParser) >>,
                                 << "z", Descriptor("parser-grammar" :> "a") >>,
                                 << "e", Descriptor("longhands" :> << "z" >>) >> >> >> >>,
      << << "@font-face", << << "z", Descriptor(("parser-grammar" :> "a") @@ SkipParser) >> >> >> >> }

InitRegistry ==
    /\ registry = "start"
    /\ registry_exception = None
    /\ properties_json = None
    /\ properties = << >>
    /\ fixups = 0
    /\ logical_property_groups = << >>
    /\ all = << >>
    /\ descriptors = << >>
    /\ all_unique = << >>

\* What the registry steps leave alone.
not_registry == << parser_vars, grammar_vars, lexer_vars, written, port_vars >>

\* json.load of the file, and the call of parse_properties_and_descriptors.
parse_properties_and_descriptors ==
    /\ registry = "start"
    /\ \E p \in InputProperties, d \in InputDescriptors :
          properties_json' = [properties |-> p, descriptors |-> d]
    /\ registry' = "properties"
    /\ UNCHANGED << registry_exception, properties, fixups, logical_property_groups, all,
                    descriptors, all_unique, not_registry >>

\* StyleProperties.from_json: StyleProperty.from_json of the next entry.
StyleProperties_from_json ==
    /\ registry = "properties" /\ registry_exception = None
    /\ Len(properties) < Len(properties_json.properties)
    /\ \E item \in { properties_json.properties[Len(properties) + 1] } :
         \E property \in { StyleProperty_from_json(item[1], item[2]) } :
            /\ registry_exception' = property.err
            /\ properties' = IF property.err = None THEN Append(properties, property.res)
                             ELSE properties
    /\ UNCHANGED << registry, properties_json, fixups, logical_property_groups, all,
                    descriptors, all_unique, not_registry >>

\* StyleProperties._perform_fixups: perform_fixups of the next property.
StyleProperties_perform_fixups ==
    /\ registry = "properties" /\ registry_exception = None
    /\ Len(properties) = Len(properties_json.properties)
    /\ fixups < Len(properties)
    /\ \E longhands \in { perform_fixups_for_longhands(properties[fixups + 1], properties) },
          groups \in { perform_fixups_for_logical_property_groups(properties[fixups + 1],
                                                                  logical_property_groups) } :
          /\ registry_exception' = IF longhands # None THEN longhands ELSE groups.err
          /\ logical_property_groups' = IF longhands # None THEN logical_property_groups
                                         ELSE groups.groups
    /\ fixups' = fixups + 1
    /\ UNCHANGED << registry, properties_json, properties, all, descriptors, all_unique, not_registry >>

\* The end of StyleProperties.__init__: the first use of `all`, which sorts.
StyleProperties_all ==
    /\ registry = "properties" /\ registry_exception = None
    /\ Len(properties) = Len(properties_json.properties)
    /\ fixups = Len(properties)
    /\ all' = sorted(properties, 1, << >>)
    /\ registry' = "descriptors"
    /\ UNCHANGED << registry_exception, properties_json, properties, fixups,
                    logical_property_groups, descriptors, all_unique, not_registry >>

\* Descriptors.from_json: DescriptorSet.from_json of the next entry.
Descriptors_from_json ==
    /\ registry = "descriptors" /\ registry_exception = None
    /\ Len(descriptors) < Len(properties_json.descriptors)
    /\ \E item \in { properties_json.descriptors[Len(descriptors) + 1] } :
         \E descriptor_set \in { DescriptorSet_from_json(item[1], item[2]) } :
            /\ registry_exception' = descriptor_set.err
            /\ descriptors' = IF descriptor_set.err = None THEN Append(descriptors, descriptor_set.res)
                              ELSE descriptors
    /\ UNCHANGED << registry, properties_json, properties, fixups, logical_property_groups, all,
                    all_unique, not_registry >>

\* The first use of PropertiesAndDescriptors.all_unique.
PropertiesAndDescriptors_all_unique ==
    /\ registry = "descriptors" /\ registry_exception = None
    /\ Len(descriptors) = Len(properties_json.descriptors)
    /\ all_unique' = compute_all_unique(all, names_of(properties), descriptors)
    /\ registry' = "parsed"
    /\ UNCHANGED << registry_exception, properties_json, properties, fixups,
                    logical_property_groups, all, descriptors, not_registry >>

RegistryNext ==
    \/ parse_properties_and_descriptors
    \/ StyleProperties_from_json
    \/ StyleProperties_perform_fixups
    \/ StyleProperties_all
    \/ Descriptors_from_json
    \/ PropertiesAndDescriptors_all_unique

(***************************************************************************)
(* webkitpy.port.glib.GLibPort: the construction of a port from its        *)
(* options, and the calls of default_timeout_ms.                            *)
(***************************************************************************)

MaxCalls == 2

\* The options a port is made with: MockOptions with or without
\* "configuration", "leaks" and "wrapper".
InputOptions ==
    { c @@ l @@ w :
        c \in { << >>, "configuration" :> "Release", "configuration" :> "Debug" },
        l \in { << >>, "leaks" :> FALSE, "leaks" :> TRUE },
        w \in { << >>, "wrapper" :> "valgrind", "wrapper" :> "gdb" } }

\* GLibPort.default_timeout_ms, were the multiplier of Debug added.
default_timeout_ms_adding(self) ==
    LET default_timeout == 15000
        multiplier == IF get(self, "leaks", FALSE) THEN 10 ELSE 1
    IN (IF get(self, "configuration", None) = "Debug" THEN multiplier + 2 ELSE multiplier)
          * default_timeout

\* GLibPort.default_timeout_ms of a port with the options `self`.
default_timeout_ms(self) ==
    LET default_timeout == 15000
        multiplier == IF get(self, "leaks", FALSE) THEN 10 ELSE 1
    IN (IF get(self, "configuration", None) = "Debug" THEN multiplier * 2 ELSE multiplier)
          * default_timeout

InitPort ==
    /\ options = << >>
    /\ port = None
    /\ timeouts = << >>

not_port == << parser_vars, grammar_vars, lexer_vars, registry_vars, written >>

\* GLibPort.__init__: with "leaks" and no "wrapper" it raises; with jhbuild
\* in use the wrapper of jhbuild is put before the wrapper of the options.
make_port ==
    /\ port = None
    /\ \E o \in InputOptions, should_use_jhbuild \in BOOLEAN :
          IF get(o, "leaks", FALSE) /\ get(o, "wrapper", "") = ""
          THEN /\ port' = "ValueError"
               /\ options' = o
          ELSE /\ port' = "constructed"
               /\ options' = IF ~should_use_jhbuild THEN o
                             ELSE IF get(o, "wrapper", "") # ""
                             THEN ("wrapper" :> ("jhbuild-wrapper run " \o o["wrapper"])) @@ o
                             ELSE ("wrapper" :> "jhbuild-wrapper run") @@ o
    /\ UNCHANGED << timeouts, not_port >>

\* A call of default_timeout_ms of the port.
call_default_timeout_ms ==
    /\ port = "constructed"
    /\ Len(timeouts) < MaxCalls
    /\ timeouts' = Append(timeouts, default_timeout_ms(options))
    /\ UNCHANGED << options, port, not_port >>

PortNext ==
    \/ make_port
    \/ call_default_timeout_ms

vars == << parser_vars, grammar_vars, run_vars >>

Init == InitParser /\ InitGrammar /\ InitLexer /\ InitRegistry /\ InitPort /\ written = << >>
Next == ParserNext
Spec == Init /\ [][Next]_vars

\* The grammar pipeline of one property.
SpecGrammar == Init /\ [][GrammarNext]_vars

\* BNFLexer with a consumer that takes every token.
SpecLexer == Init /\ [][LexerNext]_vars /\ WF_vars(LexerNext)

\* BNFParser.parse of a string.
SpecParse == Init /\ [][ParseNext]_vars

\* The registry of one run.
SpecRegistry == Init /\ [][RegistryNext]_vars

\* A GLibPort and the calls of its default_timeout_ms.
SpecPort == Init /\ [][PortNext]_vars

(***************************************************************************)
(* Properties of BNFParser.                                                *)
(***************************************************************************)
\* C1: parse returns the root only when, after the EOF token, the stack is
\* the single frame of the root (is_initial) grouping in state DONE; with a
\* construct still open once EOF has been processed, parse raises.
C1_ReturnsOnlyClosedRoot ==
    [][ /\ status' = "returned" =>
            /\ loop_token'.name = BNF_EOF_TOKEN
            /\ Len(state_stack') = 1
            /\ state_stack'[1].state = "DONE"
            /\ state_stack'[1].node = 1
            /\ nodes'[1].type = "BNFGroupingNode" /\ nodes'[1].is_initial
        /\ (status = "parsing" /\ loop_token.name = BNF_EOF_TOKEN /\ Len(state_stack) > 1) =>
            status' = "raised"
      ]_vars

\* A bracketed grouping was opened and closed, and parse returned the root.
C1_Witness ==
    /\ status = "returned"
    /\ \E i \in DOMAIN nodes : nodes[i].type = "BNFGroupingNode" /\ ~nodes[i].is_initial

\* The tokens the handler of a state has a branch for.
HandlerAccepts(state, token) ==
    LET n == token.name
        Multipliers == SIMPLE_MULTIPLIERS \cup {"ATPAREN", "LBRACE"}
        Combinators == DOMAIN COMBINATOR_FOR_TOKEN
    IN CASE state = "UNKNOWN_GROUPING_INITIAL" -> n \in TermStart \cup {"RPAREN"}
         [] state = "UNKNOWN_GROUPING_SEEN_TERM" ->
                n \in TermStart \cup Combinators \cup Multipliers \cup {"RSQUARE", "RPAREN", BNF_EOF_TOKEN}
         [] state = "KNOWN_ORDERED_GROUPING" ->
                n \in TermStart \cup Multipliers \cup {"RSQUARE", "RPAREN", BNF_EOF_TOKEN}
         [] state = "KNOWN_COMBINATOR_GROUPING_TERM_REQUIRED" ->
                n \in {"LSQUARE", "LTLT", "LT", "FUNC", "ID"}
         [] state = "KNOWN_COMBINATOR_GROUPING_COMBINATOR_OR_CLOSE_REQUIRED" ->
                n \in Combinators \cup Multipliers \cup {"RSQUARE", "RPAREN", BNF_EOF_TOKEN}
         [] state = "REFERENCE_INITIAL" -> n \in {"FUNC", "ID", "SQUOTE"}
         [] state \in {"REFERENCE_SEEN_QUOTE_OPEN", "INTERNAL_REFERENCE_INITIAL",
                       "REFERENCE_STRING_ATTRIBUTE_SEEN_EQUAL", "ANNOTATION_INITIAL",
                       "ANNOTATION_SEEN_EQUAL_OR_COMMA"} -> n = "ID"
         [] state = "REFERENCE_SEEN_QUOTE_AND_ID" -> n = "SQUOTE"
         [] state = "REFERENCE_SEEN_FUNCTION_OPEN" -> n = "RPAREN"
         [] state = "REFERENCE_SEEN_ID_OR_FUNCTION" -> n \in {"ID", "LSQUARE", "GT"}
         [] state = "INTERNAL_REFERENCE_SEEN_ID" -> n \in {"ID", "LSQUARE", "GTGT"}
         [] state = "REFERENCE_STRING_ATTRIBUTE_INITIAL" -> n \in {"EQUAL", "ID", "LSQUARE", "GT", "GTGT"}
         [] state = "REFERENCE_STRING_ATTRIBUTE_SEEN_VALUE" -> n \in {"COMMA", "ID", "LSQUARE", "GT", "GTGT"}
         [] state = "REFERENCE_RANGE_ATTRIBUTE_INITIAL" ->
                n \in {"INT", "FLOAT"} \/ (n = "ID" /\ token.value = "-inf")
         [] state = "REFERENCE_RANGE_ATTRIBUTE_SEEN_MIN" -> n = "COMMA"
         [] state = "REFERENCE_RANGE_ATTRIBUTE_SEEN_MIN_AND_COMMA" ->
                n \in {"INT", "FLOAT"} \/ (n = "ID" /\ token.value = "inf")
         [] state = "REFERENCE_RANGE_ATTRIBUTE_SEEN_MAX" -> n = "RSQUARE"
         [] state = "REPETITION_MODIFIER_INITIAL" -> n = "INT"
         [] state = "REPETITION_MODIFIER_SEEN_MIN" -> n \in {"COMMA", "RBRACE"}
         [] state = "REPETITION_MODIFIER_SEEN_MIN_AND_COMMA" -> n \in {"INT", "RBRACE"}
         [] state = "REPETITION_MODIFIER_SEEN_MAX" -> n = "RBRACE"
         [] state \in {"QUOTED_LITERAL_INITIAL", "QUOTED_LITERAL_SEEN_ID"} -> TRUE
         [] state = "ANNOTATION_SEEN_ID" -> n \in {"EQUAL", "ID", "RPAREN"}
         [] state = "ANNOTATION_SEEN_VALUE" -> n \in {"COMMA", "ID", "RPAREN"}
         [] OTHER -> FALSE

\* C2, as stated: in every state, a token the handler of the state has no
\* branch for makes parse raise the 'Unexpected token' error of
\* BNFParser.unexpected, which names the token, a state and the input string.
C2_UnexpectedTokenAlwaysReported ==
    (status = "parsing" /\ loop_token.name # BNF_EOF_TOKEN) =>
        \A token \in Tokens :
            (token.name # BNF_ILLEGAL_TOKEN /\ ~HandlerAccepts(top(Parser).state, token)) =>
                LET q == parse_token(Parser, token) IN
                /\ q.status = "raised"
                /\ q.error.kind = "Unexpected token"
                /\ q.error.token = token.name
                /\ q.error.state \in BNFParserState
                /\ q.error.data

\* C3: once a combinator has set the kind of a grouping or of a function's
\* parameter list, no step changes that kind, and a combinator token of
\* another kind read at the same level makes parse raise.
C3_CombinatorKindLocked ==
    [][ /\ \A i \in DOMAIN nodes :
            (/\ nodes[i].type \in {"BNFGroupingNode", "BNFFunctionNode"}
             /\ nodes[i].kind # "MATCH_ALL_ORDERED"
             /\ i \in DOMAIN nodes') => nodes'[i].kind = nodes[i].kind
        /\ (/\ status = "parsing"
            /\ ntokens' = ntokens + 1
            /\ top(Parser).state \in {"KNOWN_COMBINATOR_GROUPING_TERM_REQUIRED",
                                      "KNOWN_COMBINATOR_GROUPING_COMBINATOR_OR_CLOSE_REQUIRED"}
            /\ loop_token'.name \in DOMAIN COMBINATOR_FOR_TOKEN
            /\ COMBINATOR_FOR_TOKEN[loop_token'.name] # nodes[top(Parser).node].kind)
           => status' = "raised"
      ]_vars

\* A second combinator of another kind was rejected by process_combinator.
C3_Witness ==
    /\ status = "raised"
    /\ error.kind = "Did you mean"
    /\ loop_state = "KNOWN_COMBINATOR_GROUPING_COMBINATOR_OR_CLOSE_REQUIRED"

SpaceSeparatedCounts == { SpaceSeparatedKind[k] : k \in DOMAIN SpaceSeparatedKind }
CommaSeparatedCounts == { CommaSeparatedKind[k] : k \in DOMAIN CommaSeparatedKind }

\* The multiplier kinds one step may lead to from kind `kind`.
StackableOn(kind) ==
    IF kind = None THEN BNFNodeMultiplierKind \cup {None}
    ELSE IF kind = "COMMA_SEPARATED_ONE_OR_MORE" THEN {kind} \cup CommaSeparatedCounts
    ELSE {kind}

\* C4: a node without a multiplier takes any of the ten kinds; after '?',
\* '*', '+' or a count the kind never changes again; after '#' only a count
\* changes it, to the comma-separated count kind; a simple multiplier token
\* read for a node that already has a multiplier (or after a count) raises;
\* no node ever has a kind outside BNFNodeMultiplier.Kind.
C4_MultiplierStacking ==
    [][ /\ \A i \in DOMAIN nodes' :
            /\ nodes'[i].multiplier.kind \in BNFNodeMultiplierKind \cup {None}
            /\ i \in DOMAIN nodes =>
                nodes'[i].multiplier.kind \in StackableOn(nodes[i].multiplier.kind)
        /\ (/\ status = "parsing"
            /\ ntokens' = ntokens + 1
            /\ top(Parser).state \in {"UNKNOWN_GROUPING_SEEN_TERM", "KNOWN_ORDERED_GROUPING",
                                      "KNOWN_COMBINATOR_GROUPING_COMBINATOR_OR_CLOSE_REQUIRED"}
            /\ loop_token'.name \in SIMPLE_MULTIPLIERS
            /\ \/ multiplier_target = NoneRef
               \/ nodes[multiplier_target.node].multiplier.kind # None)
           => status' = "raised"
      ]_vars

\* '#' followed by '{A,B}' was accepted and gave the comma-separated kind.
C4_Witness ==
    \E i \in DOMAIN nodes :
        /\ nodes[i].multiplier.kind = "COMMA_SEPARATED_BETWEEN"
        /\ nodes[nodes[i].multiplier.range].rmin = 2
        /\ nodes[nodes[i].multiplier.range].rmax = 4

(***************************************************************************)
(* Properties of the terms, of their fixups and of PropertyConsumer.make.  *)
(***************************************************************************)
\* The terms of the tree of term t.
RECURSIVE TermsOf(_, _)
TermsOf(h, t) == {t} \cup UNION { TermsOf(h, h[t].subterms[i]) : i \in DOMAIN h[t].subterms }

\* A grammar has been parsed and the operation done last returned.
GrammarAt(at) == pc \in at /\ exception = None /\ input.property.parser_grammar

\* C5: perform_fixups is idempotent: applied to the term tree a first
\* application left, it returns (it does not raise) and the tree it leaves
\* is structurally the tree it was given.
C5_PerformFixupsIdempotent ==
    pc = "fixed again" => exception = None /\ Shape(terms, root_term) = fixed

\* `<r> | b` against the rules `<r> := a | <s>` and `<s> := b | <number>`:
\* the first application substitutes and simplifies, and a second was made.
C5_Witness ==
    /\ pc = "fixed again" /\ exception = None
    /\ input.grammar = reference("r") \o << Fixed("OR") >> \o keyword("b")
    /\ Len(input.rules) = 2
    /\ fixed.type = "MatchOneTerm" /\ Len(fixed.subterms) = 4

\* C6: after perform_fixups of a grammar, no ReferenceTerm of its tree has
\* the name of a rule of the table as its stringified form.
C6_NoReferenceToARuleLeft ==
    GrammarAt({"fixed", "fixed again"}) =>
        \A t \in TermsOf(terms, root_term) :
            terms[t].type = "ReferenceTerm" =>
                ReferenceTerm_str(terms[t]) \notin { input.rules[i].name : i \in DOMAIN input.rules }

\* `f(<r>)` against `<r> := a | <s>` and `<s> := b | <number>`: the
\* reference inside the function and the one inside the rule are replaced.
C6_Witness ==
    /\ GrammarAt({"fixed"})
    /\ input.grammar = function(reference("r"))
    /\ fixed.type = "FunctionTerm"
    /\ fixed.subterms[1].type = "MatchOneTerm"
    /\ Len(fixed.subterms[1].subterms) = 3

\* The `<<values>>` reference on the structure of the tree perform_fixups
\* left, and the keywords of the value list.
IsValuesReference(shape) ==
    shape.type = "ReferenceTerm" /\ shape.is_internal /\ shape.name = "values"
KeywordsOfValues == [i \in DOMAIN values |-> Shape(terms, values[i].keyword_term)]
MatchOneOfValues == [NewTerm("MatchOneTerm") EXCEPT !.subterms = KeywordsOfValues]

RECURSIVE Flat(_)
Flat(sequences) == IF sequences = << >> THEN << >> ELSE Head(sequences) \o Flat(Tail(sequences))

\* Every `<<values>>` reference replaced where it stands by a MatchOne of
\* the keywords of the values.
RECURSIVE Replaced(_)
Replaced(shape) ==
    IF IsValuesReference(shape) THEN MatchOneOfValues
    ELSE [shape EXCEPT !.subterms = [i \in DOMAIN shape.subterms |-> Replaced(shape.subterms[i])]]

\* The same, but for a reference that is an alternative of a MatchOne: the
\* keywords take its place among the alternatives, and a MatchOne left with
\* one alternative is that alternative.
RECURSIVE Spliced(_)
Spliced(shape) ==
    IF IsValuesReference(shape) THEN MatchOneOfValues
    ELSE IF shape.type = "MatchOneTerm"
    THEN LET alternatives == Flat([i \in DOMAIN shape.subterms |->
                                    IF IsValuesReference(shape.subterms[i]) THEN KeywordsOfValues
                                    ELSE << Spliced(shape.subterms[i]) >>])
         IN IF Len(alternatives) = 1 THEN alternatives[1]
            ELSE [shape EXCEPT !.subterms = alternatives]
    ELSE [shape EXCEPT !.subterms = [i \in DOMAIN shape.subterms |-> Spliced(shape.subterms[i])]]

\* C7 as stated: after perform_fixups_for_values_references with N values,
\* every `<<values>>` reference of the grammar has been replaced by a
\* MatchOne with exactly the N keywords of the values, in their order.
C7_ValuesReferenceBecomesMatchOne ==
    GrammarAt({"values fixed"}) => Shape(terms, root_term) = Replaced(fixed)

\* C7, amended: the N keywords of the values, in their order, have replaced
\* every `<<values>>` reference: as the subterms of a new MatchOne, or, where
\* the reference was an alternative of a MatchOne, in its place among the
\* alternatives of that MatchOne.
C7_ValuesReferenceReplaced ==
    GrammarAt({"values fixed"}) => Shape(terms, root_term) = Spliced(fixed)

\* `a | <<values>>` with the values a and b: a MatchOne of a, a and b.
C7_Witness ==
    /\ GrammarAt({"values fixed"})
    /\ fixed.type = "MatchOneTerm"
    /\ IsValuesReference(fixed.subterms[2])
    /\ Len(values) = 2
    /\ Len(terms[root_term].subterms) = 3

\* What C8 reads in the tree of the grammar and in the values.
NonBuiltinReferences ==
    { t \in TermsOf(terms, root_term) : terms[t].type = "ReferenceTerm" /\ ~terms[t].is_builtin }
KeywordNames ==
    { terms[t].name : t \in { u \in TermsOf(terms, root_term) : terms[u].type = "KeywordTerm" } }
ValueNames == { values[i].name : i \in DOMAIN values }

\* C8: check_against_values raises if and only if the tree has no
\* non-builtin reference term and the set of the names of its keywords is
\* not the set of the names of the values.
C8_CheckAgainstValuesRaisesIff ==
    pc = "checked" => (exception # None <=> (NonBuiltinReferences = {} /\ KeywordNames # ValueNames))

\* `a | b` checked against the values b and a: the sets are equal, nothing
\* is raised.
C8_Witness ==
    /\ pc = "checked" /\ exception = None
    /\ NonBuiltinReferences = {}
    /\ KeywordNames = {"a", "b"}
    /\ values[1].name = "b"

\* The wrapper the claim gives for a multiplier: '?'; '*', '+', '{A,}';
\* '{A}', '{A,B}'; '#', '#{A,}'; '#{A}', '#{A,B}'.
WrapperOf(kind, A, B) ==
    LET wrapper(type, separator, min, max) ==
            [type |-> type, separator |-> separator, min |-> min, max |-> max]
    IN CASE kind = "ZERO_OR_ONE" -> wrapper("OptionalTerm", None, 0, 0)
         [] kind = "SPACE_SEPARATED_ZERO_OR_MORE" -> wrapper("UnboundedRepetitionTerm", " ", 0, 0)
         [] kind = "SPACE_SEPARATED_ONE_OR_MORE" -> wrapper("UnboundedRepetitionTerm", " ", 1, 0)
         [] kind = "SPACE_SEPARATED_AT_LEAST" -> wrapper("UnboundedRepetitionTerm", " ", A, 0)
         [] kind = "SPACE_SEPARATED_EXACT" -> wrapper("BoundedRepetitionTerm", " ", A, A)
         [] kind = "SPACE_SEPARATED_BETWEEN" -> wrapper("BoundedRepetitionTerm", " ", A, B)
         [] kind = "COMMA_SEPARATED_ONE_OR_MORE" -> wrapper("UnboundedRepetitionTerm", ",", 1, 0)
         [] kind = "COMMA_SEPARATED_AT_LEAST" -> wrapper("UnboundedRepetitionTerm", ",", A, 0)
         [] kind = "COMMA_SEPARATED_EXACT" -> wrapper("BoundedRepetitionTerm", ",", A, A)
         [] kind = "COMMA_SEPARATED_BETWEEN" -> wrapper("BoundedRepetitionTerm", ",", A, B)

\* The term class of a node that is not wrapped; a grouping of one member
\* is the term of its member.
ClassOf(node) ==
    CASE node.type = "BNFGroupingNode" -> TermForKind[node.kind]
      [] node.type = "BNFFunctionNode" -> "FunctionTerm"
      [] node.type = "BNFReferenceNode" -> "ReferenceTerm"
      [] node.type = "BNFKeywordNode" -> "KeywordTerm"
      [] node.type = "BNFLiteralNode" -> "LiteralTerm"

\* Term.from_node(node n) returned a term that is the wrapper of the
\* multiplier of the node around the term of the node without multiplier,
\* and that is not a wrapper when the node has no multiplier.
WrappedAsItsMultiplierSays(n) ==
    LET node == nodes[n]
        of_node == from_node(nodes, << >>, n)
        term == of_node.terms[of_node.res]
        bare == from_node([nodes EXCEPT ![n].multiplier = BNFNodeMultiplier], << >>, n)
        as == WrapperOf(node.multiplier.kind, nodes[node.multiplier.range].rmin,
                        nodes[node.multiplier.range].rmax)
    IN of_node.err = None =>
         IF node.multiplier.kind = None
         THEN \/ term.type = ClassOf(node)
              \/ /\ node.type = "BNFGroupingNode" /\ Len(node.members) = 1
                 /\ Shape(of_node.terms, of_node.res)
                        = Shape(from_node(nodes, << >>, node.members[1]).terms,
                                from_node(nodes, << >>, node.members[1]).res)
         ELSE /\ term.type = as.type
              /\ term.type # "OptionalTerm" => term.separator = as.separator /\ term.min = as.min
              /\ term.type = "BoundedRepetitionTerm" => term.max = as.max
              /\ Len(term.subterms) = 1
              /\ bare.err = None
              /\ Shape(of_node.terms, term.subterms[1]) = Shape(bare.terms, bare.res)

\* C9: Term.from_node wraps a node that has a multiplier in the one wrapper
\* of the kind of the multiplier, with the separator, min and max of the
\* table, and does not wrap a node without multiplier: for every node of
\* every grammar parsed.
C9_FromNodeWrapsByMultiplierKind ==
    GrammarAt({"parsed"}) =>
        \A n \in DOMAIN nodes : nodes[n].type \in TermNodeTypes => WrappedAsItsMultiplierSays(n)

\* `<u>#{2,4}`: a BoundedRepetitionTerm of the reference u, separator ',',
\* min 2 and max 4.
C9_Witness ==
    /\ GrammarAt({"parsed"})
    /\ input.grammar = reference("u") \o << Fixed("HASH") >>
                        \o repetition("2", << Fixed("COMMA") >>, << INT("4") >>)
    /\ terms[root_term].type = "BoundedRepetitionTerm"
    /\ terms[root_term].separator = ","
    /\ terms[root_term].min = 2 /\ terms[root_term].max = 4
    /\ terms[terms[root_term].subterms[1]].type = "ReferenceTerm"
    /\ terms[terms[root_term].subterms[1]].name = "u"

\* The consumer of the precedence of C10.
ConsumerByPrecedence ==
    IF input.property.longhands \/ input.property.skip_parser THEN "SkipPropertyConsumer"
    ELSE IF input.property.parser_function THEN "CustomPropertyConsumer"
    ELSE IF /\ terms[root_term].type = "MatchOneTerm"
            /\ \A t \in { terms[root_term].subterms[i] : i \in DOMAIN terms[root_term].subterms } :
                  terms[t].type = "KeywordTerm" /\ terms[t].aliased_to = None
    THEN "FastPathKeywordOnlyPropertyConsumer"
    ELSE IF terms[root_term].type = "ReferenceTerm" THEN "DirectPropertyConsumer"
    ELSE "GeneratedPropertyConsumer"

\* C10: PropertyConsumer.make returns, for every property with longhands,
\* skip-parser, a parser-function or a parser-grammar, the one consumer of
\* the precedence.
C10_MakeSelectsByPrecedence ==
    (pc = "made" /\ input.property # NoProperty) =>
        exception = None /\ consumer = ConsumerByPrecedence

\* `a ,`: make raises the AttributeError of TermGeneratorLiteralTerm.
C10_Witness ==
    /\ pc = "made" /\ exception = "AttributeError"
    /\ input.grammar = keyword("a") \o << Fixed("COMMA") >>
    /\ ConsumerByPrecedence = "GeneratedPropertyConsumer"

(***************************************************************************)
(* Properties of annotations, of BNFLexer and of the loop of parse.        *)
(***************************************************************************)
\* The annotation and the kind of what a target refers to: a node, or the
\* multiplier of a node.
AnnotationOf(heap, target) ==
    IF target.part = "multiplier" THEN heap[target.node].multiplier.annotation
    ELSE heap[target.node].annotation
ConstructKindOf(heap, target) ==
    IF target.part = "multiplier" THEN heap[target.node].multiplier.kind
    ELSE heap[target.node].kind
WhitelistOf(heap, target) ==
    IF target.part = "multiplier" THEN MultiplierDirectives
    ELSE CASE heap[target.node].type = "BNFGroupingNode" -> GroupingDirectives
           [] heap[target.node].type = "BNFFunctionNode" -> FunctionDirectives
           [] heap[target.node].type = "BNFReferenceNode" -> ReferenceDirectives
           [] heap[target.node].type = "BNFKeywordNode" -> KeywordDirectives
           [] heap[target.node].type = "BNFLiteralNode" -> LiteralDirectives
Whitelisted(heap, target, name) ==
    /\ name \in DOMAIN WhitelistOf(heap, target)
    /\ \/ WhitelistOf(heap, target)[name] = Star
       \/ ConstructKindOf(heap, target) \in WhitelistOf(heap, target)[name]

\* The token at hand closes an annotation: it is ')' and the top frame is
\* that of the last directive of the annotation.
ClosingAnnotation ==
    /\ lexer = "yielded" /\ status = "parsing"
    /\ yielded.name = "RPAREN"
    /\ top(Parser).state \in {"ANNOTATION_SEEN_ID", "ANNOTATION_SEEN_VALUE"}

\* C15: when the ')' of an annotation is processed, the annotation becomes
\* the annotation of its target exactly if there is a target, the target has
\* no annotation yet and the name of every directive is in the whitelist of
\* the target's construct for the target's kind; otherwise the step raises
\* and leaves the annotation of the target as it was.  No other step changes
\* the annotation of an object.
C15_AnnotationAttachedOnlyIfWhitelisted ==
    [][ IF ClosingAnnotation /\ ntokens' = ntokens + 1
        THEN LET frame == state_stack[Len(state_stack) - 1]
                 target == frame.node_owner
                 names == { nodes[d].name : d \in { nodes[frame.node].members[i] :
                                                        i \in DOMAIN nodes[frame.node].members } }
                          \cup { nodes[top(Parser).node].name }
                 after == parse_token(Parser, yielded)
             IN IF /\ target # NoneRef
                   /\ AnnotationOf(nodes, target) = 0
                   /\ \A name \in names : Whitelisted(nodes, target, name)
                THEN /\ status' = "parsing"
                     /\ AnnotationOf(nodes', target) = frame.node
                ELSE /\ status' = "raised"
                     /\ after.status = "raised"
                     /\ target # NoneRef =>
                           AnnotationOf(after.nodes, target) = AnnotationOf(nodes, target)
        ELSE status' = "parsing" =>
                \A i \in DOMAIN nodes :
                    /\ nodes'[i].annotation = nodes[i].annotation
                    /\ nodes'[i].multiplier.annotation = nodes[i].multiplier.annotation
      ]_vars

\* An annotation with a directive that only some multiplier kinds support is
\* the annotation of a multiplier, and the parse went on.
C15_Witness ==
    /\ status = "parsing"
    /\ \E i \in DOMAIN nodes :
          /\ nodes[i].multiplier.annotation # 0
          /\ \E d \in DOMAIN nodes[nodes[i].multiplier.annotation].members :
                nodes[nodes[nodes[i].multiplier.annotation].members[d]].name = "no-single-item-opt"

\* C16: BNFLexer terminates on every string.  Every iteration of its loop
\* moves the position forward by at least one character; an iteration at a
\* whitespace character yields nothing, every other one yields one token;
\* an EOF token is only ever the last token yielded, and is yielded only
\* when the position has reached the end of the string; a lexer that has
\* been started finishes, and its last token is then the EOF token.
C16_LexerTerminatesWithOneEOF ==
    /\ [][ (lexer = "running" /\ position < Len(data)) =>
              /\ position' >= position + 1
              /\ position' <= Len(data)
              /\ IF CharAt(data, position) \in Whitespace
                 THEN stream' = stream /\ lexer' = "running"
                 ELSE Len(stream') = Len(stream) + 1 /\ lexer' = "yielded"
         ]_vars
    /\ [](\A i \in DOMAIN stream :
            stream[i].name = BNF_EOF_TOKEN => (i = Len(stream) /\ position = Len(data)))
    /\ [](lexer = "finished" =>
            (Len(stream) >= 1 /\ stream[Len(stream)].name = BNF_EOF_TOKEN))
    /\ (lexer = "running" ~> lexer = "finished")

\* The lexer has finished a string with blanks between two tokens: three
\* tokens were yielded, the EOF token last.
C16_Witness ==
    /\ lexer = "finished"
    /\ data = "a  2"
    /\ [i \in DOMAIN stream |-> stream[i].name] = << "ID", "INT", BNF_EOF_TOKEN >>

\* No pattern of BNFToken matches at the position.
NoPatternAt(d, pos) == \A k \in DOMAIN BNFTokenOrder : match(BNFTokenOrder[k], d, pos) = NoMatch

\* C17: at a character that no pattern matches, the lexer yields one
\* ILLEGAL token whose value is that character and moves on by exactly one
\* character.  parse hands the tokens to the parser in order, so that an
\* ILLEGAL token is read when every earlier token has been processed; the
\* step that reads it raises the illegal-token error whatever the state of
\* the parser; and a parse that returned has read no ILLEGAL token.
C17_IllegalTokenRaises ==
    /\ [][ (lexer = "running" /\ position < Len(data) /\ NoPatternAt(data, position)) =>
              /\ yielded' = BNFTokenInfo(BNF_ILLEGAL_TOKEN, CharAt(data, position))
              /\ stream' = Append(stream, yielded')
              /\ position' = position + 1
         ]_vars
    /\ [](lexer = "yielded" => (status = "parsing" /\ ntokens = Len(stream) - 1))
    /\ [][ (lexer = "yielded" /\ yielded.name = BNF_ILLEGAL_TOKEN) =>
              /\ status' = "raised"
              /\ error'.kind = "Illegal token"
              /\ ntokens' = Len(stream)
         ]_vars
    /\ [](status = "returned" =>
            \A i \in DOMAIN stream : stream[i].name # BNF_ILLEGAL_TOKEN)

\* An ILLEGAL token was read inside a quoted literal, and parse raised.
C17_Witness ==
    /\ status = "raised"
    /\ error.kind = "Illegal token"
    /\ loop_state = "QUOTED_LITERAL_SEEN_ID"
    /\ loop_token = BNFTokenInfo(BNF_ILLEGAL_TOKEN, "$")

(***************************************************************************)
(* Properties of Term.from_node and of supported_keywords.                 *)
(***************************************************************************)

\* The nodes that hold a grouping: BNFGroupingNode, and BNFFunctionNode for
\* its parameter_group.
GroupingNodeTypes == { "BNFGroupingNode", "BNFFunctionNode" }

RECURSIVE GroupingNodesUnder(_, _)
\* The grouping nodes at and under node n of the parse tree.
GroupingNodesUnder(tree, n) ==
    IF tree[n].type \in GroupingNodeTypes
    THEN {n} \cup UNION { GroupingNodesUnder(tree, tree[n].members[i]) : i \in DOMAIN tree[n].members }
    ELSE {}

\* No grouping of the parse tree has one member and an annotation.
NoAnnotatedSingle(tree) ==
    \A n \in GroupingNodesUnder(tree, 1) :
        ~(tree[n].type = "BNFGroupingNode" /\ Len(tree[n].members) = 1 /\ tree[n].annotation # 0)

\* The Match* terms of a term tree.
MatchTermsOf(h, t) == { u \in TermsOf(h, t) : h[u].type \in MatchTermTypes }

\* C18: a grouping of exactly one member and no annotation converts to the
\* term of its member: in the term tree of a parsed grammar there is one
\* Match* term for each grouping of the parse tree that has not exactly one
\* member and none for the others, at the root, nested and as the
\* parameters of a function; no Match* term has a single subterm; and a
\* root grouping of one member that has no multiplier converts to a term of
\* the class of the member.
C18_SingleMemberGroupingCollapses ==
    (GrammarAt({"parsed"}) /\ NoAnnotatedSingle(nodes)) =>
        /\ Cardinality(MatchTermsOf(terms, root_term))
              = Cardinality({ n \in GroupingNodesUnder(nodes, 1) : Len(nodes[n].members) # 1 })
        /\ \A u \in MatchTermsOf(terms, root_term) : Len(terms[u].subterms) > 1
        /\ (Len(nodes[1].members) = 1
              /\ nodes[nodes[1].members[1]].type \notin GroupingNodeTypes
              /\ nodes[nodes[1].members[1]].multiplier.kind = None)
            => terms[root_term].type
                  = CASE nodes[nodes[1].members[1]].type = "BNFReferenceNode" -> "ReferenceTerm"
                      [] nodes[nodes[1].members[1]].type = "BNFKeywordNode" -> "KeywordTerm"
                      [] nodes[nodes[1].members[1]].type = "BNFLiteralNode" -> "LiteralTerm"

\* `a | [a]`: a MatchOne of two Keyword terms, the nested grouping and the
\* root both converted without a term of their own.
C18_Witness ==
    /\ GrammarAt({"parsed"})
    /\ input.grammar = keyword("a") \o << Fixed("OR") >> \o grouping(keyword("a"))
    /\ Cardinality(GroupingNodesUnder(nodes, 1)) = 2
    /\ terms[root_term].type = "MatchOneTerm"
    /\ Len(terms[root_term].subterms) = 2
    /\ \A i \in 1..2 : terms[terms[root_term].subterms[i]].type = "KeywordTerm"

\* The names of the Keyword terms of a term tree.
KeywordNamesOf(h, t) == { h[u].name : u \in { v \in TermsOf(h, t) : h[v].type = "KeywordTerm" } }

\* C19: supported_keywords of a term is the set of the names of the Keyword
\* terms of its tree, for the root term of every grammar and for every term
\* under it, at every stage from the parse to the check against the values;
\* and `auto | none | <length [0,inf]>` converts to a MatchOne of three
\* subterms whose supported_keywords is {auto, none}.
C19_SupportedKeywordsAreTheKeywordNames ==
    /\ (exception = None /\ input.property.parser_grammar /\ pc # "rules") =>
          \A t \in TermsOf(terms, root_term) :
              supported_keywords(terms, t) = KeywordNamesOf(terms, t)
    /\ (GrammarAt({"parsed"}) /\ input.grammar = InputAutoNoneLength) =>
          /\ terms[root_term].type = "MatchOneTerm"
          /\ Len(terms[root_term].subterms) = 3
          /\ supported_keywords(terms, root_term) = {"auto", "none"}

\* `auto | none | <length [0,inf]>` parsed: two Keyword terms and the
\* builtin reference.
C19_Witness ==
    /\ GrammarAt({"parsed"})
    /\ input.grammar = InputAutoNoneLength
    /\ terms[terms[root_term].subterms[1]].type = "KeywordTerm"
    /\ terms[terms[root_term].subterms[2]].type = "KeywordTerm"
    /\ terms[terms[root_term].subterms[3]].type = "ReferenceTerm"
    /\ terms[terms[root_term].subterms[3]].is_builtin
    /\ supported_keywords(terms, root_term) = {"auto", "none"}

(***************************************************************************)
(* Properties of main.                                                     *)
(***************************************************************************)

\* C11: when a run has failed with an exception, no output file has been
\* opened for writing.
C11_NoOutputWhenRunFails == exception # None => written = << >>

\* `a? | b`: parsed, fixed and accepted by StyleProperty.from_json; the
\* names files are written; then PropertyConsumer.make raises.
C11_Witness ==
    /\ pc = "made"
    /\ exception = "Unsupported term"
    /\ input.grammar = keyword("a") \o << Fixed("QMARK"), Fixed("OR") >> \o keyword("b")
    /\ written = << "CSSPropertyNames.h", "CSSPropertyNames.gperf" >>

(***************************************************************************)
(* Properties of the registry of properties and descriptors.               *)
(***************************************************************************)

\* The priority bucket of a property, as the enumeration of the property
\* ids tells the buckets apart: top, high, medium and low priority, the
\* physical and the logical members of a logical property group, and the
\* shorthands, in this order.
priority_bucket(property) ==
    IF property.longhands # << >> THEN 6
    ELSE IF property.top_priority THEN 0
    ELSE IF property.high_priority THEN 1
    ELSE IF property.medium_priority THEN 2
    ELSE IF property.logical_property_group = NoLogicalPropertyGroup THEN 3
    ELSE IF property.logical_property_group.logic = "physical" THEN 4
    ELSE 5

\* Property a is before property b in the order of buckets, then sink
\* priority last, then prefixed names last, then names ascending.
before_in_canonical_order(a, b) ==
    \/ priority_bucket(a) < priority_bucket(b)
    \/ /\ priority_bucket(a) = priority_bucket(b)
       /\ \/ ~a.sink_priority /\ b.sink_priority
          \/ /\ a.sink_priority = b.sink_priority
             /\ sort_with_prefixed_properties_last(a, b) < 0

\* The list of the properties in another order of the input.
reordered(f) == [i \in DOMAIN properties |-> properties[f[i]]]

\* The style properties have been sorted.
Sorted == registry \in {"descriptors", "parsed"}

\* C12: the sorted list of the style properties has every shorthand after
\* every other property; before them the properties of top, high, medium
\* and unspecified priority, the physical and the logical members of a
\* logical property group, in this order; in one bucket the entries of sink
\* priority last; then the names without '-' at the front before the names
\* with it, and the names ascending.  The list is the same for every order
\* of the properties in the input.
C12_CanonicalOrder ==
    Sorted =>
        /\ \A i, j \in DOMAIN all : i < j => before_in_canonical_order(all[i], all[j])
        /\ \A f \in Permutations(DOMAIN properties) : sorted(reordered(f), 1, << >>) = all

\* "at", of top priority and a logical member of a group, read before "ts",
\* of top and sink priority: both are of the top priority bucket, and the
\* one of sink priority is sorted first.
C12_Witness ==
    /\ Sorted
    /\ Len(properties) = 2
    /\ properties[1].name = "at" /\ properties[2].name = "ts"
    /\ priority_bucket(all[1]) = priority_bucket(all[2])
    /\ all[1].name = "ts" /\ all[1].sink_priority
    /\ all[2].name = "at" /\ ~all[2].sink_priority

\* The slot of a logical property group in logical_property_groups: the
\* name of the property it holds, None when it is empty.
slot(groups, own) == get(get(get(groups, own.name, << >>), own.logic, << >>), own.resolver, None)

\* The properties registered so far that are of the group, logic and
\* resolver of `own`, as their places in the list.
registered(own) ==
    { i \in 1..fixups : /\ properties[i].logical_property_group.name = own.name
                        /\ properties[i].logical_property_group.logic = own.logic
                        /\ properties[i].logical_property_group.resolver = own.resolver }

\* C13: a slot (group name, logic, resolver) of logical_property_groups
\* holds at most one property, the first one registered for it: the
\* registration of a property whose slot is empty fills the slot and leaves
\* the other slots as they are, without an error of a duplicate; the
\* registration of a property whose slot is filled raises the error of a
\* duplicate resolver and the slot still holds the first property.
C13_OnePropertyPerSlot ==
    /\ [](\A i \in 1..fixups :
            LET own == properties[i].logical_property_group
            IN (own.name # None /\ slot(logical_property_groups, own) # None) =>
                    /\ slot(logical_property_groups, own) \in names_of(properties)
                    /\ \E first \in registered(own) :
                         /\ \A other \in registered(own) : first <= other
                         /\ slot(logical_property_groups, own) = properties[first].name)
    /\ [][(fixups' = fixups + 1 /\ properties[fixups'].logical_property_group.name # None) =>
            LET self == properties[fixups']
                own == self.logical_property_group
            IN IF slot(logical_property_groups, own) # None
               THEN /\ registry_exception' = "has multiple properties of the resolver"
                    /\ slot(logical_property_groups', own) = slot(logical_property_groups, own)
                    /\ slot(logical_property_groups', own) # self.name
               ELSE /\ registry_exception' \in {None, "has resolvers of different kinds"}
                    /\ registry_exception' = None => slot(logical_property_groups', own) = self.name
                    /\ \A i \in 1..fixups :
                         slot(logical_property_groups', properties[i].logical_property_group)
                            = slot(logical_property_groups, properties[i].logical_property_group)]_vars

\* "l" of resolver inline and "x" of resolver horizontal have filled
\* logical["inline"] and physical["horizontal"] of group "g"; the
\* registration of "d", of resolver inline too, has raised.
C13_Witness ==
    /\ fixups = 3
    /\ << properties[1].name, properties[2].name, properties[3].name >> = << "l", "x", "d" >>
    /\ registry_exception = "has multiple properties of the resolver"
    /\ logical_property_groups["g"]["logical"]["inline"] = "l"
    /\ logical_property_groups["g"]["physical"]["horizontal"] = "x"
    /\ logical_property_groups["g"]["kind"] = "axis"

\* The parser keys an object of codegen-properties declares.
declared(json) == {"parser-grammar", "parser-function", "skip-parser"} \cap DOMAIN json

\* The codegen-properties of entry i of "properties".
codegen_json(i) == get(properties_json.properties[i][2], "codegen-properties", << >>)

\* StyleProperty.from_json of the entry after the last one built has raised.
FromJsonRaised ==
    /\ registry = "properties"
    /\ registry_exception # None
    /\ Len(properties) < Len(properties_json.properties)

\* C14: for an entry whose codegen-properties declare more than one of
\* "parser-grammar", "parser-function" and "skip-parser", from_json builds
\* no object, and the exception it raises names two of the declared keys as
\* the ones that can't be had both.
C14_ConflictingParserKeysRejected ==
    /\ registry # "start" =>
          \A i \in DOMAIN properties : Cardinality(declared(codegen_json(i))) <= 1
    /\ (FromJsonRaised /\ Cardinality(declared(codegen_json(Len(properties) + 1))) > 1) =>
          \E a, b \in declared(codegen_json(Len(properties) + 1)) :
             a # b /\ registry_exception = "can't have both '" \o a \o "' and '" \o b \o "'"

\* {"parser-grammar": "", "skip-parser": true}: two of the keys declared,
\* and the StyleProperty is built, with skip_parser and no grammar.
C14_Witness ==
    /\ registry = "properties"
    /\ registry_exception = None
    /\ Len(properties) = 1
    /\ declared(codegen_json(1)) = {"parser-grammar", "skip-parser"}
    /\ codegen_json(1)["parser-grammar"] = ""
    /\ properties[1].skip_parser
    /\ properties[1].parser_grammar = NoGrammarObject

\* The names of the descriptors of a descriptor set.
descriptor_names(descriptor_set) == names_of(descriptor_set.descriptors)

\* C20: all_unique has one entry for every name of a style property or of a
\* descriptor, and no two entries of one name; the entry of the name of a
\* style property is the style property; the entry of another name is the
\* descriptor of that name of the first descriptor set that has one.
C20_AllUniqueOnePerName ==
    registry = "parsed" =>
        /\ names_of(all_unique)
              = names_of(properties) \cup UNION { descriptor_names(descriptors[k]) : k \in DOMAIN descriptors }
        /\ \A i, j \in DOMAIN all_unique : all_unique[i].name = all_unique[j].name => i = j
        /\ \A i \in DOMAIN all_unique :
              IF all_unique[i].name \in names_of(properties)
              THEN \E n \in DOMAIN properties : all_unique[i] = properties[n]
              ELSE \E k \in DOMAIN descriptors :
                      /\ \A earlier \in 1..(k - 1) :
                            all_unique[i].name \notin descriptor_names(descriptors[earlier])
                      /\ \E n \in DOMAIN descriptors[k].descriptors :
                            all_unique[i] = descriptors[k].descriptors[n]

\* "b" is a style property and a descriptor of @font-face, "z" a descriptor
\* of @font-face and of @counter-style: the entry of "b" is the style
\* property and the entry of "z" the descriptor of @font-face.
C20_Witness ==
    /\ registry = "parsed"
    /\ Len(descriptors) = 2
    /\ "b" \in names_of(properties) \cap descriptor_names(descriptors[1])
    /\ "z" \in descriptor_names(descriptors[1]) \cap descriptor_names(descriptors[2])
    /\ \E i \in DOMAIN all_unique : \E n \in DOMAIN properties :
          all_unique[i] = properties[n] /\ properties[n].name = "b"
    /\ \E i \in DOMAIN all_unique :
          all_unique[i].name = "z" /\ all_unique[i].descriptor_set_name = descriptors[1].name

(***************************************************************************)
(* Properties of GLibPort.                                                 *)
(***************************************************************************)

\* The port has the option set to a true value.
has_option(name) == get(options, name, FALSE)

\* C21: every call of default_timeout_ms returns 15000, times 10 when the
\* option "leaks" is set, times 2 when the configuration is "Debug": 15000
\* for Release, 30000 for Debug, 150000 for Release with leaks and 300000
\* for Debug with leaks.
C21_DefaultTimeout ==
    \A i \in DOMAIN timeouts :
        LET configuration == get(options, "configuration", None)
        IN /\ (~has_option("leaks") /\ configuration # "Debug") => timeouts[i] = 15000
           /\ (~has_option("leaks") /\ configuration = "Debug") => timeouts[i] = 30000
           /\ (has_option("leaks") /\ configuration # "Debug") => timeouts[i] = 150000
           /\ (has_option("leaks") /\ configuration = "Debug") => timeouts[i] = 300000

\* A Debug port with leaks and the valgrind wrapper, asked twice.
C21_Witness ==
    /\ port = "constructed"
    /\ has_option("leaks")
    /\ get(options, "configuration", None) = "Debug"
    /\ timeouts = << 300000, 300000 >>

(***************************************************************************)
(* Further properties of BNFParser.                                        *)
(***************************************************************************)

\* The groupings and parameter lists a combinator has set the kind of.
CombinatorGroupings ==
    { i \in DOMAIN nodes : /\ nodes[i].type \in {"BNFGroupingNode", "BNFFunctionNode"}
                           /\ nodes[i].kind # "MATCH_ALL_ORDERED" }

\* The node's frame is on the stack, waiting for the term after a combinator.
TermRequired(i) ==
    \E k \in DOMAIN state_stack :
        /\ state_stack[k].node = i
        /\ state_stack[k].state = "KNOWN_COMBINATOR_GROUPING_TERM_REQUIRED"

\* The members of the node that are still being read: the frames above the
\* node's own whose node is added to the node's members when they are popped.
Pending(i) ==
    Cardinality({ k \in DOMAIN state_stack :
                    /\ state_stack[k].node_owner = [part |-> "node", node |-> i]
                    /\ nodes[state_stack[k].node].type \in TermNodeTypes })

\* C22: a ']', a ')' or the end of input read right after a combinator
\* makes parse raise; a grouping that waits for the term after a combinator
\* has as many members, the one still being read included, as combinator
\* tokens, every other grouping with combinators has one member more than
\* combinator tokens, and so has every grouping with combinators of a tree
\* parse returns, where no member is still being read.
C22_TermRequiredAfterCombinator ==
    /\ [][(/\ status = "parsing"
           /\ ntokens' = ntokens + 1
           /\ top(Parser).state = "KNOWN_COMBINATOR_GROUPING_TERM_REQUIRED"
           /\ loop_token'.name \in {"RSQUARE", "RPAREN", BNF_EOF_TOKEN})
          => status' = "raised"]_vars
    /\ [](\A i \in DOMAIN nodes :
            IF i \in CombinatorGroupings
            THEN /\ combinators[i] >= 1
                 /\ Len(nodes[i].members) + Pending(i)
                        = IF TermRequired(i) THEN combinators[i] ELSE combinators[i] + 1
            ELSE combinators[i] = 0)
    /\ [](status = "returned" =>
            \A i \in CombinatorGroupings : ~TermRequired(i) /\ Pending(i) = 0)

\* `a | b`, or the like, returned: a grouping of two members between which
\* one combinator token was read.
C22_Witness ==
    /\ status = "returned"
    /\ \E i \in CombinatorGroupings : combinators[i] = 1 /\ Len(nodes[i].members) = 2

\* The groupings and parameter lists of the tree.
Groupings == { i \in DOMAIN nodes : nodes[i].type \in {"BNFGroupingNode", "BNFFunctionNode"} }

\* C28: a '|', '||' or '&&' read in a grouping that holds juxtaposed terms
\* makes parse raise, and so does a term started right after a term in a
\* grouping a combinator was read in: no grouping has both juxtaposed terms
\* and combinator tokens, its kind is MATCH_ALL_ORDERED exactly when no
\* combinator token was read in it, and juxtaposed terms or a combinator
\* token are between any two of its members.
C28_NoMixOfJuxtapositionAndCombinators ==
    /\ [][(/\ status = "parsing"
           /\ ntokens' = ntokens + 1
           /\ \/ /\ top(Parser).state = "KNOWN_ORDERED_GROUPING"
                 /\ loop_token'.name \in DOMAIN COMBINATOR_FOR_TOKEN
              \/ /\ top(Parser).state = "KNOWN_COMBINATOR_GROUPING_COMBINATOR_OR_CLOSE_REQUIRED"
                 /\ loop_token'.name \in TermStart)
          => status' = "raised"]_vars
    /\ [](\A i \in Groupings :
            /\ ~(juxtapositions[i] > 0 /\ combinators[i] > 0)
            /\ nodes[i].kind = "MATCH_ALL_ORDERED" <=> combinators[i] = 0
            /\ (Len(nodes[i].members) + Pending(i) > 0 /\ ~TermRequired(i)) =>
                  Len(nodes[i].members) + Pending(i) = juxtapositions[i] + combinators[i] + 1)

\* `a b |`: the combinator after two juxtaposed keywords has raised.
C28_Witness ==
    /\ status = "raised"
    /\ ntokens = 3
    /\ loop_state = "KNOWN_ORDERED_GROUPING"
    /\ loop_token.name = "OR"

\* The last member added to node n is the node of the multiplier target.
TargetIsLastMemberOf(n) ==
    /\ multiplier_target.part = "node"
    /\ nodes[n].members # << >>
    /\ nodes[n].members[Len(nodes[n].members)] = multiplier_target.node

\* The frames of the stack whose node takes members: the frames of the
\* groupings and of the parameter lists.
GroupingFrames == { k \in DOMAIN state_stack : state_stack[k].node \in Groupings }

\* The frames above frame k are frames of a repetition modifier or of an
\* annotation, with its directive, being read.
OnlyModifiersAbove(k) ==
    \A j \in (k + 1)..Len(state_stack) :
        nodes[state_stack[j].node].type \in {"BNFRepetitionModifier", "BNFAnnotation", "Directive"}

\* A combinator or an opening bracket was read, and parse goes on.
CombinatorOrBracketRead ==
    /\ status = "parsing" /\ status' = "parsing"
    /\ ntokens' = ntokens + 1
    /\ \/ /\ loop_token'.name \in DOMAIN COMBINATOR_FOR_TOKEN
          /\ top(Parser).state \in CombinatorStates
       \/ /\ loop_token'.name \in {"LSQUARE", "FUNC"}
          /\ top(Parser).node \in Groupings

\* A multiplier token was read in a grouping, and parse goes on.
MultiplierRead ==
    /\ status = "parsing" /\ status' = "parsing"
    /\ ntokens' = ntokens + 1
    /\ loop_token'.name \in SIMPLE_MULTIPLIERS
    /\ top(Parser).node \in Groupings

\* The claim as it is worded: whenever multiplier_target is set, it is the
\* last member of the node of the frame on top of the stack.
C29_TargetIsLastMemberOfTopFrame ==
    (status # "raised" /\ multiplier_target # NoneRef) => TargetIsLastMemberOf(top(Parser).node)

\* C29: when multiplier_target is set, it is the last member added to the
\* node of the topmost frame of a grouping or parameter list, above which
\* the stack holds at most the frames of the repetition modifier and of the
\* annotation (and its directive) being read; a multiplier token read in a grouping sets the
\* multiplier of that last member and of no other node; after a combinator
\* or an opening bracket there is no multiplier target.
C29_TargetIsLastMemberOfGrouping ==
    /\ []((status # "raised" /\ multiplier_target # NoneRef) =>
            \E k \in GroupingFrames :
                /\ OnlyModifiersAbove(k)
                /\ TargetIsLastMemberOf(state_stack[k].node))
    /\ [][MultiplierRead =>
            /\ TargetIsLastMemberOf(top(Parser).node)
            /\ multiplier_target' = multiplier_target
            /\ \A i \in DOMAIN nodes :
                 nodes'[i].multiplier # nodes[i].multiplier => i = multiplier_target.node]_vars
    /\ [][CombinatorOrBracketRead => multiplier_target' = NoneRef]_vars

\* `a b {`: the frame on top is the frame of the repetition modifier, and
\* the multiplier target is b, the last member of the grouping below it.
C29_Witness ==
    /\ status = "parsing"
    /\ nodes[top(Parser).node].type = "BNFRepetitionModifier"
    /\ Len(state_stack) = 2
    /\ Len(nodes[state_stack[1].node].members) = 2
    /\ TargetIsLastMemberOf(state_stack[1].node)

(***************************************************************************)
(* Further properties of the fixups.                                       *)
(***************************************************************************)
\* Term t is a MatchOneTerm with settings_flag set.
flagged(h, t) == h[t].type = "MatchOneTerm" /\ h[t].settings_flag # None

\* r is the return of a fixup method, and what it returned is a
\* MatchOneTerm with settings_flag set.
returned_flagged(r) == r.err = None /\ flagged(r.terms, r.res)

\* The MatchOneTerms of the tree of t.
MatchOnes(h, t) == { m \in TermsOf(h, t) : h[m].type = "MatchOneTerm" }

\* The Values of each "values" array.
ValuesRead(h) == { Values_from_json(h, json, 1, << >>) : json \in InputValues }

\* C23: perform_fixups of a grammar raises when the fixed-up subterm of one
\* of its MatchOneTerms is a MatchOneTerm with settings_flag set, and so
\* does perform_fixups_for_values_references for any values; the tree a
\* fixup left has no MatchOneTerm with settings_flag set as a subterm of a
\* MatchOneTerm.
C23_FlaggedMatchOneNeverMerged ==
    /\ [](GrammarAt({"parsed"}) =>
            /\ (\E m \in MatchOnes(terms, root_term) : \E i \in DOMAIN terms[m].subterms :
                   returned_flagged(perform_fixups(terms, terms[m].subterms[i], rules, MaxDepth)))
               => perform_fixups(terms, root_term, rules, MaxDepth).err
                     = "Simplifying is not yet supported"
            /\ \A v \in ValuesRead(terms) :
                 (\E m \in MatchOnes(terms, root_term) : \E i \in DOMAIN terms[m].subterms :
                     returned_flagged(
                        perform_fixups_for_values_references(v.terms, terms[m].subterms[i], v.res)))
                 => perform_fixups_for_values_references(v.terms, root_term, v.res).err
                       = "Simplifying is not yet supported")
    /\ [](GrammarAt({"fixed", "fixed again", "values fixed", "checked"}) =>
            \A m \in MatchOnes(terms, root_term) : \A i \in DOMAIN terms[m].subterms :
                ~flagged(terms, terms[m].subterms[i]))
    /\ [][(GrammarAt({"parsed"}) /\ pc' = "fixed" /\ exception' = None) =>
             \A t \in TermsOf(terms, root_term) :
                 flagged(terms, t) => \E u \in TermsOf(terms', root_term') :
                                         /\ flagged(terms', u)
                                         /\ terms'[u].settings_flag = terms[t].settings_flag]_vars

\* `a | [ a | b ]@(settings-flag=x)` was parsed, and perform_fixups raised.
C23_Witness ==
    /\ pc = "fixed"
    /\ exception = "Simplifying is not yet supported"
    /\ input.grammar = keyword("a") \o << Fixed("OR") >>
                       \o grouping(keyword("a") \o << Fixed("OR") >> \o keyword("b"))
                       \o annotation("settings-flag", "x")

(***************************************************************************)
(* Further properties of the registry.                                     *)
(***************************************************************************)
\* The properties whose perform_fixups returned, as their places in the
\* list, that are of a logical property group.
Registered ==
    { i \in 1..fixups : /\ i < fixups \/ registry_exception = None
                        /\ properties[i].logical_property_group.name # None }

\* The kind recorded for the group of name `name`, None when there is none.
kind_of_group(groups, name) == get(get(groups, name, << >>), "kind", None)

\* C24: the properties registered in one logical property group are all of
\* the kind recorded for the group; the registration of a property of
\* another kind than the one recorded for its group raises, the error of
\* the kinds unless a longhand of the property is unknown, and leaves the
\* kind of the group as it was.
C24_OneKindPerGroup ==
    /\ [](\A i \in Registered :
            /\ kind_of_group(logical_property_groups, properties[i].logical_property_group.name)
                  = properties[i].logical_property_group.kind
            /\ \A j \in Registered :
                  properties[i].logical_property_group.name
                     = properties[j].logical_property_group.name
                  => properties[i].logical_property_group.kind
                        = properties[j].logical_property_group.kind)
    /\ [][(fixups' = fixups + 1 /\ properties[fixups'].logical_property_group.name # None) =>
            LET self == properties[fixups']
                own == self.logical_property_group
                existing_kind == kind_of_group(logical_property_groups, own.name)
            IN (existing_kind # None /\ existing_kind # own.kind) =>
                   /\ registry_exception' # None
                   /\ perform_fixups_for_longhands(self, properties) = None
                        => registry_exception' = "has resolvers of different kinds"
                   /\ kind_of_group(logical_property_groups', own.name) = existing_kind]_vars

\* "l", of resolver inline and of kind axis, is registered in group "g";
\* the registration of "e", of resolver block-start and of kind side, has
\* raised.
C24_Witness ==
    /\ fixups = 2
    /\ << properties[1].name, properties[2].name >> = << "l", "e" >>
    /\ properties[1].logical_property_group.name = properties[2].logical_property_group.name
    /\ properties[1].logical_property_group.kind # properties[2].logical_property_group.kind
    /\ registry_exception = "has resolvers of different kinds"

(***************************************************************************)
(* Properties of the term generators.                                      *)
(***************************************************************************)
\* PropertyConsumer.make returned a GeneratedPropertyConsumer for a grammar
\* whose root term is a MatchOneTerm.
MatchOneGenerated ==
    /\ pc \in {"made", "parsing generated"}
    /\ consumer = "GeneratedPropertyConsumer"
    /\ terms[root_term].type = "MatchOneTerm"

\* The generators of term_generators but the one of the fast path.
FastPath(k) == term_generators[k].generator = "TermGeneratorFastPathKeywordTerms"
Others == SelectSeq(term_generators, LAMBDA g : g.generator # "TermGeneratorFastPathKeywordTerms")

\* The alternatives of a sequence of generators, as their places in the
\* grammar, in the order in which the generated code tries them.
RECURSIVE Tried(_)
Tried(generators) ==
    IF generators = << >> THEN << >>
    ELSE Head(generators).alternatives \o Tried(Tail(generators))

\* The places of a sequence are in the order of the declaration.
Declared(places_tried) ==
    \A k \in 1..(Len(places_tried) - 1) : places_tried[k] < places_tried[k + 1]

\* The keywords of the fast path come first, in one generator, and every
\* alternative of the MatchOneTerm is tried by one generator.
FastPathFirst ==
    /\ \A k \in DOMAIN term_generators : FastPath(k) => k = 1
    /\ \A i \in DOMAIN terms[root_term].subterms :
         LET sub_term == terms[terms[root_term].subterms[i]]
         IN /\ Cardinality({ k \in DOMAIN Tried(term_generators) : Tried(term_generators)[k] = i }) = 1
            /\ (sub_term.type = "KeywordTerm" /\ is_eligible_for_fast_path(sub_term))
                 => FastPath(1) /\ \E k \in DOMAIN term_generators[1].alternatives :
                                      term_generators[1].alternatives[k] = i

\* The claim as the specification words it: after the keywords of the fast
\* path, the alternatives are tried in the order of their declaration,
\* whatever their variants are.
C25_DeclarationOrderWhateverTheVariant ==
    MatchOneGenerated => FastPathFirst /\ Declared(Tried(Others))

\* The variants in the order in which the generated code tries them, after
\* the keywords of the fast path.
VariantsTried ==
    << "TermGeneratorNonFastPathKeywordTerm", "TermGeneratorReferenceTerm",
       "TermGeneratorFunctionTerm", "TermGeneratorUnboundedRepetitionTerm",
       "TermGeneratorBoundedRepetitionTerm", "TermGeneratorMatchOneOrMoreAnyOrderTerm",
       "TermGeneratorMatchAllOrderedTerm", "TermGeneratorMatchAllAnyOrderTerm" >>
variant(generator) == CHOOSE v \in DOMAIN VariantsTried : VariantsTried[v] = generator.generator

\* C25: the code generated for a MatchOneTerm tries the keywords of the
\* fast path first, as one dispatch, and then the other alternatives
\* variant by variant (the other keywords, the references, the functions,
\* the unbounded and the bounded repetitions, the '||' groupings, the
\* juxtapositions, the '&&' groupings), those of one variant in the order
\* of their declaration.
C25_DeclarationOrderWithinVariant ==
    MatchOneGenerated =>
        /\ FastPathFirst
        /\ \A k \in DOMAIN Others :
             /\ Others[k].generator \in { VariantsTried[v] : v \in DOMAIN VariantsTried }
             /\ Declared(Others[k].alternatives)
             /\ \A i \in DOMAIN Others[k].alternatives :
                  LET sub_term == terms[terms[root_term].subterms[Others[k].alternatives[i]]]
                  IN Others[k].generator =
                        IF sub_term.type = "KeywordTerm" THEN "TermGeneratorNonFastPathKeywordTerm"
                        ELSE "TermGenerator" \o sub_term.type
        /\ \A k \in 1..(Len(Others) - 1) :
             \/ variant(Others[k]) < variant(Others[k + 1])
             \/ /\ variant(Others[k]) = variant(Others[k + 1])
                /\ Declared(Others[k].alternatives \o Others[k + 1].alternatives)

\* `f(a) | <number>`: the generator of the reference, declared second, is
\* before the generator of the function.
C25_Witness ==
    /\ MatchOneGenerated
    /\ input.grammar = function(keyword("a")) \o << Fixed("OR") >> \o reference("number")
    /\ term_generators = << [generator |-> "TermGeneratorReferenceTerm", alternatives |-> << 2 >>],
                            [generator |-> "TermGeneratorFunctionTerm", alternatives |-> << 1 >>] >>

(***************************************************************************)
(* Properties of the shared grammar rules.                                 *)
(***************************************************************************)
\* The term trees of the shared grammar rules, by structure.
RuleShapes(h, table) == [i \in DOMAIN table |-> Shape(h, table[i].root_term)]

\* C26: perform_fixups and perform_fixups_for_values_references of the
\* grammar of a property leave the term tree of every shared grammar rule
\* structurally as it was.
C26_SharedRulesUnchanged ==
    [][(pc \in {"parsed", "fixed"} /\ input.property.parser_grammar)
          => RuleShapes(terms', rules') = RuleShapes(terms, rules)]_vars

\* The property's grammar is `<r>`, the rule is `<r> := a | <<values>>`, and
\* after perform_fixups_for_values_references for the values a and b, which
\* returned, the tree of the rule is `a | a | b`.
C26_Witness ==
    /\ GrammarAt({"values fixed"})
    /\ input.grammar = reference("r")
    /\ Len(rules) = 1 /\ rules[1].name = "<r>"
    /\ Len(values) = 2
    /\ terms[rules[1].root_term].type = "MatchOneTerm"
    /\ Len(terms[rules[1].root_term].subterms) = 3
    /\ \A i \in 1..3 : terms[terms[rules[1].root_term].subterms[i]].type = "KeywordTerm"

\* C27: SharedGrammarRules._perform_fixups returns, or raises an exception
\* of its own, for every rule table: the recursion of perform_fixups through
\* the references to rules never exhausts the stack of the interpreter.
C27_FixupPassTerminates ==
    pc = "rules" => exception # "RecursionError"

\* `<r> := a | <r>`: perform_fixups of the reference inside the rule is
\* perform_fixups of the root term of the rule, without end.
C27_Witness ==
    /\ pc = "rules"
    /\ input.rules = << Rule("<r>", keyword("a") \o << Fixed("OR") >> \o reference("r")) >>
    /\ exception = "RecursionError"
    /\ rules = << >>

(***************************************************************************)
(* Further properties of Term.from_node.                                   *)
(***************************************************************************)
\* The settings flags of the annotation of node n: the first values of its
\* 'settings-flag' directives that have one.
SettingsFlagsOf(tree, n) ==
    { annotation_of(tree, tree[n].annotation)[i].value[1] :
        i \in { j \in DOMAIN annotation_of(tree, tree[n].annotation) :
                  /\ annotation_of(tree, tree[n].annotation)[j].name = "settings-flag"
                  /\ annotation_of(tree, tree[n].annotation)[j].value # << >> } }

\* The nodes of the parse tree that convert to a term and carry an
\* annotation with a settings flag.
FlaggedNodes(tree) ==
    { n \in DOMAIN tree : tree[n].type \in TermNodeTypes /\ SettingsFlagsOf(tree, n) # {} }

\* The term from_node made for node n itself, under the term of its
\* multiplier when it has one; r is what from_node returned.
term_for_node(tree, n, r) ==
    IF tree[n].multiplier.kind # None THEN r.terms[r.terms[r.res].subterms[1]]
    ELSE r.terms[r.res]

\* Term.from_node of node n returned a term that has the settings flag of
\* the node, or it raised; r is what it did.
flag_kept(tree, n, r) ==
    r.err = None => term_for_node(tree, n, r).settings_flag \in SettingsFlagsOf(tree, n)

\* C30: for every node of a parsed grammar that carries an annotation with
\* a settings flag, the term Term.from_node returns for the node has that
\* settings flag, a bracketed grouping of one member included.
C30_FromNodeKeepsSettingsFlag ==
    GrammarAt({"parsed"}) =>
        \A n \in FlaggedNodes(nodes) : flag_kept(nodes, n, from_node(nodes, << >>, n))

\* `[ a ]@(settings-flag=x)` was parsed: the grouping carries the flag, and
\* its term is the Keyword term of a, without a settings flag.
C30_Witness ==
    /\ GrammarAt({"parsed"})
    /\ input.grammar = grouping(keyword("a")) \o annotation("settings-flag", "x")
    /\ \E n \in FlaggedNodes(nodes) :
         /\ nodes[n].type = "BNFGroupingNode" /\ Len(nodes[n].members) = 1
         /\ SettingsFlagsOf(nodes, n) = {"x"}
    /\ terms[root_term].type = "KeywordTerm"
    /\ terms[root_term].settings_flag = None

====
